---- MODULE Spec2Model ----
(***************************************************************************)
(* Model of the Arke MCP server: the three tool handlers registered by     *)
(* ArkeMCP.init (search_arke, get_arke_entities, extract_text_ocr), the    *)
(* ArkeSearchClient and OCRClient they call, the renderers of search and   *)
(* OCR responses, and the text extractor findExtractedText they use.       *)
(*                                                                         *)
(* Specifications: Spec (the tool surface), SpecExtract (findExtractedText *)
(* on values built node by node), SpecOcrClient (processOCR), SpecOcrRender*)
(* (formatOCRResultForAI), SpecOcrBatch (formatOCRBatchResultForAI),       *)
(* SpecRender (formatSearchResultsForAI), SpecPreview (the text preview of *)
(* formatSearchResultConcise), SpecWorker (the worker's fetch handler) and *)
(* SpecHistory (the tool surface next to an earlier or overlapping         *)
(* invocation).                                                            *)
(*                                                                         *)
(* An optional JavaScript value is modelled as a set with at most one      *)
(* element: {} is undefined (absent), {v} is the value v.                  *)
(***************************************************************************)
EXTENDS Integers, Sequences, FiniteSets, TLC

VARIABLES
    pc,         \* position of the current tool invocation
    tool,       \* name of the tool being invoked ("none" when idle)
    args,       \* arguments of the handler, after schema parsing and defaults
    calls,      \* remote requests issued by the invocation, in issue order
    fetches,    \* get_arke_entities: one getEntity promise per identifier
    completed,  \* get_arke_entities: indices of the settled promises, in settle order
    all,        \* get_arke_entities: the Promise.all over fetches
    result,     \* what the handler returned ({} while running)
    received,   \* search_arke, extract_text_ocr: the HTTP outcome of the call ({} before it)
    agent,      \* ArkeMCP: "constructed", then "ready" or "failed" once init ended
    namespaceInfo, \* ArkeMCP.namespaceInfo ({} is null)
    registered, \* ArkeMCP.server: the tools registered, in registration order
    initError,  \* ArkeMCP: what init threw ({} when it did not)
    nsResp,     \* ArkeMCP: the HTTP outcome of init's namespace fetch ({} before it)
    clients,    \* ArkeMCP.arkeClient and ArkeMCP.ocrClient
    wkReq,      \* worker: {} or the request handed to fetch
    wkResp,     \* worker: {} before fetch returns, {what it returned} after
    kept,       \* {} or an invocation that began before the current one
    exTree,     \* text extractor: the value handed to findExtractedText
    exStash,    \* text extractor: a part of the input value set aside while it is built
    exOut,      \* text extractor: {} before the call, {sequence} after it
    ocPc,       \* OCR client: position of a processOCR call
    ocIn,       \* OCR client: the arguments of the call
    ocCalls,    \* OCR client: requests sent by the call
    ocResp,     \* OCR client: the HTTP outcome of the request ({} before it)
    ocOut,      \* OCR client: how the call ended ({} while running)
    orIn,       \* OCR renderer: {} or the OCRResponse handed to formatOCRResultForAI
    orOut,      \* OCR renderer: {} before the call, {outcome} after it
    srResp,     \* search renderer: {} or the SearchResponse to render
    srDropped,  \* search renderer: optional fields taken out of the first result
    srOut       \* search renderer: {} before the call, {mode and outcome} after it

vars == <<pc, tool, args, calls, fetches, completed, all, result, received,
          agent, namespaceInfo, registered, initError, nsResp, clients,
          wkReq, wkResp, kept, exTree, exStash, exOut,
          ocPc, ocIn, ocCalls, ocResp, ocOut, orIn, orOut, srResp, srDropped, srOut>>

toolVars == <<pc, tool, args, calls, fetches, completed, all, result, received>>

agVars == <<agent, namespaceInfo, registered, initError, nsResp, clients>>

wkVars == <<wkReq, wkResp>>

hsVars == <<kept>>

exVars == <<exTree, exStash, exOut>>

ocVars == <<ocPc, ocIn, ocCalls, ocResp, ocOut>>

orVars == <<orIn, orOut>>

srVars == <<srResp, srDropped, srOut>>

\* What the tool handlers leave alone, and what the text extractor does.
nonToolVars == <<agVars, wkVars, hsVars, exVars, ocVars, orVars, srVars>>

nonExVars == <<toolVars, agVars, wkVars, hsVars, ocVars, orVars, srVars>>

nonOcVars == <<toolVars, agVars, wkVars, hsVars, exVars, orVars, srVars>>

nonOrVars == <<toolVars, agVars, wkVars, hsVars, exVars, ocVars, srVars>>

nonSrVars == <<toolVars, agVars, wkVars, hsVars, exVars, ocVars, orVars>>

nonAgVars == <<toolVars, wkVars, hsVars, exVars, ocVars, orVars, srVars>>

nonWkVars == <<toolVars, agVars, hsVars, exVars, ocVars, orVars, srVars>>

(***************************************************************************)
(* Bounds of the model.                                                    *)
(***************************************************************************)
MaxPis == 3

MaxTopKArg == 22

MaxNodes == 6

(***************************************************************************)
(* Small helpers.                                                          *)
(***************************************************************************)
Min(a, b) == IF a < b THEN a ELSE b

Opt(S) == {{}} \cup {{x} : x \in S}

The(o) == CHOOSE x \in o : TRUE

SeqsUpTo(S, n) == UNION {[1..k -> S] : k \in 0..n}

Ids == {"p1", "p2"}

(***************************************************************************)
(* JavaScript strings, as sequences of characters, and number formatting.  *)
(***************************************************************************)
Whitespace == {" ", "\t", "\n"}

RECURSIVE FirstNonWhitespace(_, _)
FirstNonWhitespace(chars, i) ==
    IF i > Len(chars) \/ chars[i] \notin Whitespace THEN i
    ELSE FirstNonWhitespace(chars, i + 1)

RECURSIVE LastNonWhitespace(_, _)
LastNonWhitespace(chars, i) ==
    IF i < 1 \/ chars[i] \notin Whitespace THEN i
    ELSE LastNonWhitespace(chars, i - 1)

\* String.prototype.trim
trim(chars) ==
    SubSeq(chars, FirstNonWhitespace(chars, 1), LastNonWhitespace(chars, Len(chars)))

\* text.split(/\s+/).length of a trimmed, non-empty text: one more than the
\* number of whitespace runs.
wordCount(text) ==
    1 + Cardinality({i \in 2..Len(text) :
                        text[i] \in Whitespace /\ text[i - 1] \notin Whitespace})

DigitChars == <<"0", "1", "2", "3", "4", "5", "6", "7", "8", "9">>

\* String(n) of a non-negative integer.
RECURSIVE IndexKey(_)
IndexKey(n) ==
    IF n < 10 THEN <<DigitChars[n + 1]>>
    ELSE IndexKey(n \div 10) \o <<DigitChars[(n % 10) + 1]>>

\* Number.prototype.toLocaleString of a non-negative integer: its groups of
\* three digits, most significant first.
RECURSIVE toLocaleString(_)
toLocaleString(n) ==
    IF n < 1000 THEN <<n>> ELSE Append(toLocaleString(n \div 1000), n % 1000)

\* Amounts of money are held in millionths of a dollar; toFixed(6) prints the
\* dollars and the six decimals.
toFixed6(micros) == [int |-> micros \div 1000000, frac |-> micros % 1000000]

\* One line of a rendered text: what the line is and the value printed in it.
Line(tag, val) == [line |-> tag, val |-> val]

Blank == Line("blank", "")

Tags(text) == [i \in DOMAIN text |-> text[i].line]

HasLine(text, tag) == \E i \in DOMAIN text : text[i].line = tag

LinesOf(text, tag) == SelectSeq(text, LAMBDA l : l.line = tag)

(***************************************************************************)
(* Parsed JSON values and findExtractedText.  A string is the sequence of   *)
(* its characters; an object is the sequence of its entries in insertion    *)
(* order.                                                                  *)
(***************************************************************************)
VNull == [t |-> "null"]

VStr(chars) == [t |-> "str", s |-> chars]

VObj(entries) == [t |-> "obj", e |-> entries]

VArr(items) == [t |-> "arr", e |-> items]

Entry(k, v) == [k |-> k, v |-> v]

LowerCaseMap ==
    ("A" :> "a") @@ ("B" :> "b") @@ ("C" :> "c") @@ ("D" :> "d") @@ ("E" :> "e")
    @@ ("F" :> "f") @@ ("G" :> "g") @@ ("H" :> "h") @@ ("I" :> "i") @@ ("J" :> "j")
    @@ ("K" :> "k") @@ ("L" :> "l") @@ ("M" :> "m") @@ ("N" :> "n") @@ ("O" :> "o")
    @@ ("P" :> "p") @@ ("Q" :> "q") @@ ("R" :> "r") @@ ("S" :> "s") @@ ("T" :> "t")
    @@ ("U" :> "u") @@ ("V" :> "v") @@ ("W" :> "w") @@ ("X" :> "x") @@ ("Y" :> "y")
    @@ ("Z" :> "z")

\* String.prototype.toLowerCase
toLowerCase(chars) ==
    [i \in DOMAIN chars |->
        IF chars[i] \in DOMAIN LowerCaseMap THEN LowerCaseMap[chars[i]] ELSE chars[i]]

\* Object.entries: the entries of an object, or index/element pairs of an array.
ObjectEntries(value) ==
    IF value.t = "obj" THEN value.e
    ELSE [i \in DOMAIN value.e |-> Entry(IndexKey(i - 1), value.e[i])]

KeyExtractedText == <<"e", "x", "t", "r", "a", "c", "t", "e", "d", "t", "e", "x", "t">>

KeyExtractedUnderscoreText ==
    <<"e", "x", "t", "r", "a", "c", "t", "e", "d", "_", "t", "e", "x", "t">>

\* A key check that pushes every string found under a matching key.
MatchEntryAnyString(entry) ==
    IF toLowerCase(entry.k) = KeyExtractedText
        \/ toLowerCase(entry.k) = KeyExtractedUnderscoreText
    THEN IF entry.v.t = "str" THEN <<trim(entry.v.s)>> ELSE <<>>
    ELSE <<>>

\* The body of the entries loop for one entry, before the recursion.
MatchEntry(entry) ==
    IF toLowerCase(entry.k) = KeyExtractedText
        \/ toLowerCase(entry.k) = KeyExtractedUnderscoreText
    THEN IF entry.v.t = "str" /\ Len(trim(entry.v.s)) > 0
         THEN <<trim(entry.v.s)>>
         ELSE <<>>
    ELSE <<>>

\* The inner function search of findExtractedText, returning what it pushes:
\* typeof value === "object" holds for arrays too, so an array is walked by
\* the entries loop and then again by the Array.isArray loop.
RECURSIVE search_(_)
RECURSIVE SearchEntries(_, _)
RECURSIVE SearchItems(_, _)
SearchEntries(entries, i) ==
    IF i > Len(entries) THEN <<>>
    ELSE MatchEntry(entries[i]) \o search_(entries[i].v) \o SearchEntries(entries, i + 1)

SearchItems(items, i) ==
    IF i > Len(items) THEN <<>>
    ELSE search_(items[i]) \o SearchItems(items, i + 1)

search_(value) ==
    IF value.t = "null" THEN <<>>
    ELSE IF value.t = "str" THEN <<>>
    ELSE (IF value.t \in {"obj", "arr"} THEN SearchEntries(ObjectEntries(value), 1) ELSE <<>>)
         \o (IF value.t = "arr" THEN SearchItems(value.e, 1) ELSE <<>>)

findExtractedText(obj) == search_(obj)

(***************************************************************************)
(* Numbers, booleans and property reads of parsed JSON values.  A number   *)
(* is its integer part and the digits of its fraction.                     *)
(***************************************************************************)
VNum(int, frac) == [t |-> "num", int |-> int, frac |-> frac]

VBool(b) == [t |-> "bool", b |-> b]

\* What reading a property that is not there gives.
VUndefined == [t |-> "undefined"]

IsNullish(value) == value.t \in {"null", "undefined"}

\* value.key, for a value that is not null or undefined; value?.key for any.
Get(value, key) ==
    IF value.t = "obj" /\ \E i \in DOMAIN value.e : value.e[i].k = key
    THEN value.e[CHOOSE i \in DOMAIN value.e : value.e[i].k = key].v
    ELSE VUndefined

\* ToBoolean
Truthy(value) ==
    CASE value.t \in {"null", "undefined"} -> FALSE
      [] value.t = "str" -> value.s # <<>>
      [] value.t = "num" -> value.int # 0 \/ value.frac # <<>>
      [] value.t = "bool" -> value.b
      [] OTHER -> TRUE

\* String(n) of a non-negative number.
NumberToString(value) ==
    IndexKey(value.int)
    \o (IF value.frac = <<>> THEN <<>>
        ELSE <<".">> \o [i \in DOMAIN value.frac |-> DigitChars[value.frac[i] + 1]])

\* `${value}` of a string or a number.
JsString(value) ==
    IF value.t = "str" THEN value.s
    ELSE IF value.t = "num" THEN NumberToString(value)
    ELSE <<"[", "o", "b", "j", "e", "c", "t", "]">>

FracDigit(value, i) == IF i <= Len(value.frac) THEN value.frac[i] ELSE 0

\* Number.prototype.toFixed(3): the number in thousandths, rounded on the
\* fourth decimal, printed as integer part and three decimals.
toFixed3(value) ==
    LET thousandths == value.int * 1000 + FracDigit(value, 1) * 100
                       + FracDigit(value, 2) * 10 + FracDigit(value, 3)
                       + (IF FracDigit(value, 4) >= 5 THEN 1 ELSE 0)
    IN [int |-> thousandths \div 1000, frac |-> thousandths % 1000]

\* (bytes / 1024 / 1024).toFixed(2): megabytes in hundredths, rounded.
sizeMB(bytes) ==
    LET hundredths == (bytes * 200 + 1048576) \div 2097152
    IN [int |-> hundredths \div 100, frac |-> hundredths % 100]

\* String.prototype.substring(0, n)
substring(chars, n) == SubSeq(chars, 1, Min(n, Len(chars)))

(***************************************************************************)
(* JSON.stringify(value, null, 2) and JSON.parse, character by character.  *)
(***************************************************************************)
\* A serializer that copies the characters of a string as they are.
QuoteCharRaw(c) == <<c>>

\* The escape of one character inside a JSON string.
QuoteChar(c) ==
    CASE c = "\"" -> <<"\\", "\"">>
      [] c = "\\" -> <<"\\", "\\">>
      [] c = "\n" -> <<"\\", "n">>
      [] c = "\t" -> <<"\\", "t">>
      [] OTHER -> <<c>>

RECURSIVE QuoteFrom(_, _)
QuoteFrom(chars, i) ==
    IF i > Len(chars) THEN <<>> ELSE QuoteChar(chars[i]) \o QuoteFrom(chars, i + 1)

Quote(chars) == <<"\"">> \o QuoteFrom(chars, 1) \o <<"\"">>

Indent(n) == [i \in 1..n |-> " "]

RECURSIVE stringify(_, _)
RECURSIVE StringifyItems(_, _, _)
RECURSIVE StringifyEntries(_, _, _)
StringifyItems(items, i, indent) ==
    Indent(indent) \o stringify(items[i], indent)
    \o (IF i < Len(items) THEN <<",", "\n">> \o StringifyItems(items, i + 1, indent)
        ELSE <<>>)

StringifyEntries(entries, i, indent) ==
    Indent(indent) \o Quote(entries[i].k) \o <<":", " ">>
    \o stringify(entries[i].v, indent)
    \o (IF i < Len(entries) THEN <<",", "\n">> \o StringifyEntries(entries, i + 1, indent)
        ELSE <<>>)

stringify(value, indent) ==
    CASE value.t = "null" -> <<"n", "u", "l", "l">>
      [] value.t = "bool" -> (IF value.b THEN <<"t", "r", "u", "e">>
                              ELSE <<"f", "a", "l", "s", "e">>)
      [] value.t = "num" -> NumberToString(value)
      [] value.t = "str" -> Quote(value.s)
      [] value.t = "arr" ->
            IF value.e = <<>> THEN <<"[", "]">>
            ELSE <<"[", "\n">> \o StringifyItems(value.e, 1, indent + 2)
                 \o <<"\n">> \o Indent(indent) \o <<"]">>
      [] value.t = "obj" ->
            IF value.e = <<>> THEN <<"{", "}">>
            ELSE <<"{", "\n">> \o StringifyEntries(value.e, 1, indent + 2)
                 \o <<"\n">> \o Indent(indent) \o <<"}">>

JSONstringify(value) == stringify(value, 0)

\* The character at a position, "" past the end.
At(chars, i) == IF i \in DOMAIN chars THEN chars[i] ELSE ""

ParseFailed == [ok |-> FALSE, v |-> VNull, next |-> 0]

Parsed(value, next) == [ok |-> TRUE, v |-> value, next |-> next]

RECURSIVE SkipWhitespace(_, _)
SkipWhitespace(chars, i) ==
    IF At(chars, i) \in Whitespace THEN SkipWhitespace(chars, i + 1) ELSE i

IsDigit(c) == \E d \in 0..9 : DigitChars[d + 1] = c

DigitOf(c) == CHOOSE d \in 0..9 : DigitChars[d + 1] = c

\* The run of digits that starts at a position.
RECURSIVE ParseDigits(_, _)
ParseDigits(chars, i) ==
    IF IsDigit(At(chars, i)) THEN <<DigitOf(chars[i])>> \o ParseDigits(chars, i + 1)
    ELSE <<>>

RECURSIVE DigitsValue(_, _)
DigitsValue(digits, n) ==
    IF n = 0 THEN 0 ELSE DigitsValue(digits, n - 1) * 10 + digits[n]

ParseNumber(chars, i) ==
    LET whole == ParseDigits(chars, i)
        j == i + Len(whole)
        frac == IF At(chars, j) = "." THEN ParseDigits(chars, j + 1) ELSE <<>>
    IN IF At(chars, j) = "." /\ frac = <<>> THEN ParseFailed
       ELSE Parsed(VNum(DigitsValue(whole, Len(whole)), frac),
                   IF frac = <<>> THEN j ELSE j + 1 + Len(frac))

\* The characters of a string up to its closing quote, escapes undone.
RECURSIVE ParseString(_, _)
ParseString(chars, i) ==
    LET c == At(chars, i)
    IN IF c = "" THEN ParseFailed
       ELSE IF c = "\"" THEN Parsed(<<>>, i + 1)
       ELSE IF c = "\\"
       THEN LET e == At(chars, i + 1)
                rest == ParseString(chars, i + 2)
            IN IF e \notin {"\"", "\\", "n", "t"} \/ ~rest.ok THEN ParseFailed
               ELSE Parsed(<<CASE e = "n" -> "\n" [] e = "t" -> "\t" [] OTHER -> e>>
                           \o rest.v, rest.next)
       ELSE LET rest == ParseString(chars, i + 1)
            IN IF ~rest.ok THEN ParseFailed ELSE Parsed(<<c>> \o rest.v, rest.next)

Literal(chars, i, word) == SubSeq(chars, i, Min(Len(chars), i + Len(word) - 1)) = word

RECURSIVE ParseValue(_, _)
RECURSIVE ParseItems(_, _, _)
RECURSIVE ParseEntries(_, _, _)
\* The elements of an array from a position on, up to its closing bracket.
ParseItems(chars, i, items) ==
    LET item == ParseValue(chars, i)
        j == SkipWhitespace(chars, item.next)
    IN IF ~item.ok THEN ParseFailed
       ELSE IF At(chars, j) = "," THEN ParseItems(chars, j + 1, Append(items, item.v))
       ELSE IF At(chars, j) = "]" THEN Parsed(VArr(Append(items, item.v)), j + 1)
       ELSE ParseFailed

\* The entries of an object from a position on, up to its closing brace.
ParseEntries(chars, i, entries) ==
    LET k == SkipWhitespace(chars, i)
        key == IF At(chars, k) = "\"" THEN ParseString(chars, k + 1) ELSE ParseFailed
        c == SkipWhitespace(chars, key.next)
        val == IF key.ok /\ At(chars, c) = ":" THEN ParseValue(chars, c + 1)
               ELSE ParseFailed
        j == SkipWhitespace(chars, val.next)
    IN IF ~val.ok THEN ParseFailed
       ELSE IF At(chars, j) = ","
       THEN ParseEntries(chars, j + 1, Append(entries, Entry(key.v, val.v)))
       ELSE IF At(chars, j) = "}"
       THEN Parsed(VObj(Append(entries, Entry(key.v, val.v))), j + 1)
       ELSE ParseFailed

ParseValue(chars, i) ==
    LET j == SkipWhitespace(chars, i)
        c == At(chars, j)
    IN IF c = "n" /\ Literal(chars, j, <<"n", "u", "l", "l">>) THEN Parsed(VNull, j + 4)
       ELSE IF c = "t" /\ Literal(chars, j, <<"t", "r", "u", "e">>)
       THEN Parsed(VBool(TRUE), j + 4)
       ELSE IF c = "f" /\ Literal(chars, j, <<"f", "a", "l", "s", "e">>)
       THEN Parsed(VBool(FALSE), j + 5)
       ELSE IF c = "\"" THEN LET str == ParseString(chars, j + 1)
                             IN IF str.ok THEN Parsed(VStr(str.v), str.next)
                                ELSE ParseFailed
       ELSE IF IsDigit(c) THEN ParseNumber(chars, j)
       ELSE IF c = "["
       THEN IF At(chars, SkipWhitespace(chars, j + 1)) = "]"
            THEN Parsed(VArr(<<>>), SkipWhitespace(chars, j + 1) + 1)
            ELSE ParseItems(chars, j + 1, <<>>)
       ELSE IF c = "{"
       THEN IF At(chars, SkipWhitespace(chars, j + 1)) = "}"
            THEN Parsed(VObj(<<>>), SkipWhitespace(chars, j + 1) + 1)
            ELSE ParseEntries(chars, j + 1, <<>>)
       ELSE ParseFailed

\* JSON.parse: the value, when the whole text is one JSON value.
JSONparse(chars) ==
    LET r == ParseValue(chars, 1)
    IN IF r.ok /\ SkipWhitespace(chars, r.next) = Len(chars) + 1 THEN r
       ELSE ParseFailed

(***************************************************************************)
(* JSON bodies and HTTP outcomes of the remote services.                   *)
(***************************************************************************)
JsonNull == [kind |-> "null"]

InvalidJson == [kind |-> "invalid"]

NetworkError == [kind |-> "network_error", ok |-> FALSE, body |-> JsonNull]

HttpResponse(ok, body) == [kind |-> "response", ok |-> ok, body |-> body]

JsError(msg) == [name |-> "Error", message |-> msg]

TypeError == [name |-> "TypeError", message |-> <<"Cannot read properties">>]

\* Manifest bodies GET /entities/{pi} may answer: the manifest fields at the
\* top level, with or without an already resolved metadata block.
EntityBody(pi, comps, md, mdCid) ==
    [kind |-> "object", pi |-> pi, components |-> comps,
     metadata |-> md, metadata_cid |-> mdCid, component_data |-> {}]

EntityBodies(pi) ==
    {JsonNull,
     EntityBody(pi, ("catalog_record" :> "cid1") @@ ("ocr_text" :> "cid2"), {}, {}),
     EntityBody(pi, ("catalog_record" :> "cid1"), {"gateway_metadata"}, {"cid9"})}

EntityHttpOutcomes(pi) ==
    {NetworkError, HttpResponse(FALSE, JsonNull)}
        \cup {HttpResponse(TRUE, b) : b \in EntityBodies(pi)}

(***************************************************************************)
(* Promises.                                                               *)
(***************************************************************************)
Pending == [state |-> "pending", value |-> {}, reason |-> {}, resp |-> {}]

Fulfilled(v, http) == [state |-> "fulfilled", value |-> {v}, reason |-> {}, resp |-> {http}]

Rejected(e, http) == [state |-> "rejected", value |-> {}, reason |-> {e}, resp |-> {http}]

AllPending == [state |-> "pending", value |-> <<>>, reason |-> {}]

(***************************************************************************)
(* ArkeSearchClient.getEntity and getEntities.                             *)
(***************************************************************************)
\* getEntity settles with the parsed body of the manifest response as it is;
\* a transport error, a non-OK status and an unparsable body all end in the
\* catch block, which throws "Error fetching entity <pi>: ...".
getEntity(pi, http) ==
    IF http.kind = "network_error"
    THEN Rejected(JsError(<<"Error fetching entity", pi, "fetch failed">>), http)
    ELSE IF ~http.ok
    THEN Rejected(JsError(<<"Error fetching entity", pi, "Failed to fetch entity">>), http)
    ELSE IF http.body = InvalidJson
    THEN Rejected(JsError(<<"Error fetching entity", pi, "Unexpected token">>), http)
    ELSE Fulfilled(http.body, http)

\* A combinator that waits for every promise and keeps the fulfilled values.
PromiseAllKeepFulfilled(prev, fs, order) ==
    IF prev.state # "pending" THEN prev
    ELSE IF \A i \in DOMAIN fs : fs[i].state # "pending"
    THEN LET ok == SelectSeq([i \in DOMAIN fs |-> i], LAMBDA i : fs[i].state = "fulfilled")
         IN [state |-> "fulfilled",
             value |-> [k \in DOMAIN ok |-> The(fs[ok[k]].value)],
             reason |-> {}]
    ELSE prev

\* A combinator that collects the values in the order the promises settle.
PromiseAllCompletionOrder(prev, fs, order) ==
    IF prev.state # "pending" THEN prev
    ELSE IF \E i \in DOMAIN fs : fs[i].state = "rejected"
    THEN [state |-> "rejected", value |-> <<>>,
          reason |-> fs[CHOOSE i \in DOMAIN fs : fs[i].state = "rejected"].reason]
    ELSE IF \A i \in DOMAIN fs : fs[i].state = "fulfilled"
    THEN [state |-> "fulfilled",
          value |-> [k \in DOMAIN order |-> The(fs[order[k]].value)],
          reason |-> {}]
    ELSE prev

\* Promise.all over the getEntity promises: rejects with the reason of the
\* first promise to reject, fulfils with the values in input order once every
\* promise has fulfilled, and never changes once settled.
PromiseAll(prev, fs, order) ==
    IF prev.state # "pending" THEN prev
    ELSE IF \E i \in DOMAIN fs : fs[i].state = "rejected"
    THEN LET k == CHOOSE k \in DOMAIN order :
                    /\ fs[order[k]].state = "rejected"
                    /\ \A j \in 1..(k - 1) : fs[order[j]].state # "rejected"
         IN [state |-> "rejected", value |-> <<>>, reason |-> fs[order[k]].reason]
    ELSE IF \A i \in DOMAIN fs : fs[i].state = "fulfilled"
    THEN [state |-> "fulfilled",
          value |-> [i \in DOMAIN fs |-> The(fs[i].value)],
          reason |-> {}]
    ELSE prev

\* The catch block of getEntities wraps the rejection reason.
getEntitiesError(reason) ==
    JsError(<<"Error fetching entities">> \o reason.message)

(***************************************************************************)
(* ArkeMCP: its fields and init.                                           *)
(***************************************************************************)
\* The two clients, as their field initialisers leave them.
Clients ==
    [arkeClient |-> [baseUrl |-> "https://search.arke.institute",
                     apiUrl |-> "https://api.arke.institute"],
     ocrClient |-> [baseUrl |-> "config.ocr.apiUrl"]]

\* A NamespaceInfo as GET /namespaces answers it.
NamespaceInfo(namespaces) ==
    [kind |-> "object", namespaces |-> namespaces, count |-> Len(namespaces)]

NamespaceLists == {<<"digitalObject">>, <<"digitalObject", "fileUnit">>}

NamespaceBodies ==
    {JsonNull, InvalidJson} \cup {NamespaceInfo(l) : l \in NamespaceLists}

NamespaceHttpOutcomes ==
    {NetworkError, HttpResponse(FALSE, JsonNull)}
        \cup {HttpResponse(TRUE, b) : b \in NamespaceBodies}

\* ArkeSearchClient.getNamespaces: every failure is rethrown by its catch
\* block with the prefix "Error fetching namespaces".
getNamespaces(http) ==
    IF http.kind = "network_error"
    THEN [threw |-> TRUE,
          error |-> JsError(<<"Error fetching namespaces", "fetch failed">>),
          value |-> JsonNull]
    ELSE IF ~http.ok
    THEN [threw |-> TRUE,
          error |-> JsError(<<"Error fetching namespaces", "Failed to fetch namespaces">>),
          value |-> JsonNull]
    ELSE IF http.body = InvalidJson
    THEN [threw |-> TRUE,
          error |-> JsError(<<"Error fetching namespaces", "Unexpected token">>),
          value |-> JsonNull]
    ELSE [threw |-> FALSE, error |-> TypeError, value |-> http.body]

\* this.server.tool(name, schema, handler); namespaceEnum is the z.enum the
\* schema of search_arke closes over ({} for the other tools).
RegisteredTool(name, namespaceEnum) == [name |-> name, namespaceEnum |-> namespaceEnum]

\* The three this.server.tool calls of init, in the order of the code.
RegisterTools(info) ==
    <<RegisteredTool("search_arke", {info.namespaces}),
      RegisteredTool("get_arke_entities", {}),
      RegisteredTool("extract_text_ocr", {})>>

\* An init that falls back to a built-in namespace list when the fetch fails.
initWithFallback(http) ==
    LET r == getNamespaces(http)
    IN IF r.threw \/ r.value = JsonNull
       THEN [threw |-> FALSE, error |-> TypeError, namespaceInfo |-> {},
             tools |-> RegisterTools(NamespaceInfo(<<"digitalObject", "fileUnit">>))]
       ELSE [threw |-> FALSE, error |-> TypeError, namespaceInfo |-> {r.value},
             tools |-> RegisterTools(r.value)]

\* ArkeMCP.init: what it throws, what it leaves in this.namespaceInfo and the
\* tools it registers.  Its catch block logs and rethrows.  A null body makes
\* `this.namespaceInfo.count` throw before anything is registered.
init(http) ==
    LET r == getNamespaces(http)
    IN IF r.threw
       THEN [threw |-> TRUE, error |-> r.error, namespaceInfo |-> {}, tools |-> <<>>]
       ELSE IF r.value = JsonNull
       THEN [threw |-> TRUE, error |-> TypeError, namespaceInfo |-> {}, tools |-> <<>>]
       ELSE [threw |-> FALSE, error |-> TypeError, namespaceInfo |-> {r.value},
             tools |-> RegisterTools(r.value)]

AgIdle ==
    /\ agent = "constructed"
    /\ namespaceInfo = {}
    /\ registered = <<>>
    /\ initError = {}
    /\ nsResp = {}
    /\ clients = Clients

\* The agent runs init once, before it serves any request.
AgentInit ==
    /\ agent = "constructed"
    /\ \E http \in NamespaceHttpOutcomes :
        LET r == init(http)
        IN /\ nsResp' = {http}
           /\ agent' = IF r.threw THEN "failed" ELSE "ready"
           /\ initError' = IF r.threw THEN {r.error} ELSE {}
           /\ namespaceInfo' = r.namespaceInfo
           /\ registered' = r.tools
    /\ UNCHANGED <<clients, nonAgVars>>

\* The server dispatches a request to a tool only if that tool is registered.
Registered(name) == \E i \in DOMAIN registered : registered[i].name = name

\* The z.enum of the namespaces filter of search_arke.
namespaceEnum ==
    LET search_arke == registered[CHOOSE i \in DOMAIN registered :
                                     registered[i].name = "search_arke"]
        namespaces == The(search_arke.namespaceEnum)
    IN {namespaces[i] : i \in DOMAIN namespaces}

(***************************************************************************)
(* formatEntitiesForAI and the get_arke_entities handler.                  *)
(***************************************************************************)
\* One block per entity, in list order, each with the entity's pi in the
\* heading and the whole entity dumped as JSON.  Reading entity.pi of a null
\* entity throws a TypeError.
formatEntitiesForAI(entities) ==
    IF \E i \in DOMAIN entities : entities[i] = JsonNull
    THEN [threw |-> TRUE, error |-> TypeError, text |-> <<>>]
    ELSE [threw |-> FALSE, error |-> TypeError,
          text |-> [i \in DOMAIN entities |->
                       [heading |-> <<"Entity", i, entities[i].pi>>,
                        view |-> <<"https://arke.institute", entities[i].pi>>,
                        json |-> entities[i]]]]

SuccessPayload(text) ==
    [isError |-> FALSE, text |-> text, message |-> <<>>, guidance |-> ""]

ErrorPayload(prefix, err, guidance) ==
    [isError |-> TRUE, text |-> <<>>,
     message |-> <<prefix>> \o err.message, guidance |-> guidance]

Unhandled(err) ==
    [isError |-> FALSE, text |-> <<>>, message |-> <<"unhandled">> \o err.message,
     guidance |-> "unhandled"]

EntitiesCatch(err) ==
    ErrorPayload("Error fetching entities", err, "Please verify")

\* The handler after `await this.arkeClient.getEntities(pis)` settled.
EntitiesHandlerReturn(a) ==
    IF a.state = "rejected"
    THEN EntitiesCatch(getEntitiesError(The(a.reason)))
    ELSE LET f == formatEntitiesForAI(a.value)
         IN IF f.threw THEN EntitiesCatch(f.error) ELSE SuccessPayload(f.text)

\* z.array(z.string()).min(1).max(10)
PisSchemaMin == 1

PisSchemaMax == 10

ZodEntities(rawPis) == Len(rawPis) >= PisSchemaMin /\ Len(rawPis) <= PisSchemaMax

ManifestRequest(pi) == [method |-> "GET", path |-> <<"/entities", pi>>]

Idle ==
    /\ pc = "idle"
    /\ tool = "none"
    /\ args = <<>>
    /\ calls = <<>>
    /\ fetches = <<>>
    /\ completed = <<>>
    /\ all = AllPending
    /\ result = {}
    /\ received = {}

\* A get_arke_entities request arrives.  A valid pis list enters the handler,
\* which calls getEntities: pis.map starts every getEntity up to its fetch.
EntitiesInvoke ==
    /\ pc = "idle"
    /\ Registered("get_arke_entities")
    /\ \E rawPis \in SeqsUpTo(Ids, MaxPis) :
        /\ tool' = "get_arke_entities"
        /\ args' = [pis |-> rawPis]
        /\ IF ZodEntities(rawPis)
           THEN /\ pc' = "await_entities"
                /\ calls' = [i \in DOMAIN rawPis |-> ManifestRequest(rawPis[i])]
                /\ fetches' = [i \in DOMAIN rawPis |-> Pending]
           ELSE /\ pc' = "rejected"
                /\ calls' = <<>>
                /\ fetches' = <<>>
    /\ UNCHANGED <<completed, all, result, received, nonToolVars>>

\* One manifest fetch completes, in any order, also after the handler returned.
EntityFetchSettle ==
    /\ tool = "get_arke_entities"
    /\ pc \in {"await_entities", "returned"}
    /\ \E i \in DOMAIN fetches :
        /\ fetches[i].state = "pending"
        /\ \E http \in EntityHttpOutcomes(args.pis[i]) :
            LET fs == [fetches EXCEPT ![i] = getEntity(args.pis[i], http)]
                order == Append(completed, i)
            IN /\ fetches' = fs
               /\ completed' = order
               /\ all' = PromiseAll(all, fs, order)
    /\ UNCHANGED <<pc, tool, args, calls, result, received, nonToolVars>>

\* The handler resumes once the Promise.all has settled and returns.
EntitiesResume ==
    /\ pc = "await_entities"
    /\ all.state # "pending"
    /\ result' = {EntitiesHandlerReturn(all)}
    /\ pc' = "returned"
    /\ UNCHANGED <<tool, args, calls, fetches, completed, all, received, nonToolVars>>

\* The request/response cycle is over; nothing of it is kept.
Reset ==
    /\ pc \in {"returned", "rejected"}
    /\ pc' = "idle"
    /\ tool' = "none"
    /\ args' = <<>>
    /\ calls' = <<>>
    /\ fetches' = <<>>
    /\ completed' = <<>>
    /\ all' = AllPending
    /\ result' = {}
    /\ received' = {}
    /\ UNCHANGED nonToolVars

(***************************************************************************)
(* The search renderers: formatSearchResultConcise,                        *)
(* formatSearchResultVerbose and the two response formatters.              *)
(***************************************************************************)
\* The property names the renderers read.
K ==
    [score |-> <<"s", "c", "o", "r", "e">>,
     pi |-> <<"p", "i">>,
     namespace |-> <<"n", "a", "m", "e", "s", "p", "a", "c", "e">>,
     pinecone_metadata |-> <<"p", "i", "n", "e", "c", "o", "n", "e", "_", "m", "e",
            "t", "a", "d", "a", "t", "a">>,
     manifest |-> <<"m", "a", "n", "i", "f", "e", "s", "t">>,
     metadata |-> <<"m", "e", "t", "a", "d", "a", "t", "a">>,
     metadata_cid |-> <<"m", "e", "t", "a", "d", "a", "t", "a", "_", "c", "i", "d">>,
     schema |-> <<"s", "c", "h", "e", "m", "a">>,
     nara_naId |-> <<"n", "a", "r", "a", "_", "n", "a", "I", "d">>,
     date_start |-> <<"d", "a", "t", "e", "_", "s", "t", "a", "r", "t">>,
     date_end |-> <<"d", "a", "t", "e", "_", "e", "n", "d">>,
     last_updated |-> <<"l", "a", "s", "t", "_", "u", "p", "d", "a", "t", "e", "d">>,
     ver |-> <<"v", "e", "r">>,
     ts |-> <<"t", "s">>,
     manifest_cid |-> <<"m", "a", "n", "i", "f", "e", "s", "t", "_", "c", "i", "d">>,
     components |-> <<"c", "o", "m", "p", "o", "n", "e", "n", "t", "s">>,
     children_pi |-> <<"c", "h", "i", "l", "d", "r", "e", "n", "_", "p", "i">>,
     parent_pi |-> <<"p", "a", "r", "e", "n", "t", "_", "p", "i">>,
     title |-> <<"t", "i", "t", "l", "e">>,
     level |-> <<"l", "e", "v", "e", "l">>,
     record_types |-> <<"r", "e", "c", "o", "r", "d", "_", "t", "y", "p", "e", "s">>,
     digital_object_count |-> <<"d", "i", "g", "i", "t", "a", "l", "_", "o", "b",
            "j", "e", "c", "t", "_", "c", "o", "u", "n", "t">>,
     extracted_text |-> <<"e", "x", "t", "r", "a", "c", "t", "e", "d", "_", "t", "e",
            "x", "t">>,
     file_size |-> <<"f", "i", "l", "e", "_", "s", "i", "z", "e">>,
     filename |-> <<"f", "i", "l", "e", "n", "a", "m", "e">>,
     access_restriction |-> <<"a", "c", "c", "e", "s", "s", "_", "r", "e", "s", "t",
            "r", "i", "c", "t", "i", "o", "n">>,
     status |-> <<"s", "t", "a", "t", "u", "s">>,
     physical_location |-> <<"p", "h", "y", "s", "i", "c", "a", "l", "_", "l", "o",
            "c", "a", "t", "i", "o", "n">>,
     referenceUnits |-> <<"r", "e", "f", "e", "r", "e", "n", "c", "e", "U", "n", "i",
            "t", "s">>,
     name |-> <<"n", "a", "m", "e">>,
     city |-> <<"c", "i", "t", "y">>,
     state |-> <<"s", "t", "a", "t", "e">>,
     pages |-> <<"p", "a", "g", "e", "s">>,
     extractedText |-> <<"e", "x", "t", "r", "a", "c", "t", "e", "d", "T", "e", "x",
            "t">>]

StrDigitalObject == <<"d", "i", "g", "i", "t", "a", "l", "O", "b", "j", "e", "c", "t">>

\* Array.prototype.length or String.prototype.length; 0 stands for the
\* undefined length of anything else, which is not > 0 either.
Length(value) ==
    IF value.t = "arr" THEN Len(value.e)
    ELSE IF value.t = "str" THEN Len(value.s)
    ELSE 0

\* extractedTexts.join("\n\n---\n\n")
TextSeparator == <<"\n", "\n", "-", "-", "-", "\n", "\n">>

RECURSIVE join(_, _)
join(texts, sep) ==
    IF texts = <<>> THEN <<>>
    ELSE IF Len(texts) = 1 THEN texts[1]
    ELSE texts[1] \o sep \o join(Tail(texts), sep)

CHAR_LIMIT == 2000

\* A preview that cuts from the limit itself on.
previewAtLimit(combinedText) ==
    IF Len(combinedText) >= CHAR_LIMIT
    THEN [shown |-> substring(combinedText, CHAR_LIMIT),
          notice |-> {Len(combinedText) - CHAR_LIMIT}]
    ELSE [shown |-> combinedText, notice |-> {}]

\* const preview: the characters shown and, when the text was cut, the
\* number printed in "[Truncated - N more characters available]".
preview(combinedText) ==
    IF Len(combinedText) > CHAR_LIMIT
    THEN [shown |-> substring(combinedText, CHAR_LIMIT),
          notice |-> {Len(combinedText) - CHAR_LIMIT}]
    ELSE [shown |-> combinedText, notice |-> {}]

\* The first lines of a result block in both modes.
ResultHeader(hit, index) ==
    Line("result", [rank |-> index + 1, score |-> toFixed3(Get(hit, K.score))])

\* A concise renderer that reads result.metadata.title without the ?. guard.
ConciseThrowsUnguarded(hit) ==
    \/ IsNullish(hit)
    \/ Get(hit, K.score).t # "num"
    \/ IsNullish(Get(hit, K.metadata))
    \/ IsNullish(Get(hit, K.pinecone_metadata))
    \/ IsNullish(Get(hit, K.manifest))

\* The reads of formatSearchResultConcise that throw a TypeError: toFixed of
\* a score that is no number, a property of a null or undefined
\* pinecone_metadata, manifest or first reference unit, and join of record
\* types that are a string.
ConciseThrows(hit) ==
    \/ IsNullish(hit)
    \/ Get(hit, K.score).t # "num"
    \/ IsNullish(Get(hit, K.pinecone_metadata))
    \/ /\ Get(Get(hit, K.metadata), K.record_types).t = "str"
       /\ Length(Get(Get(hit, K.metadata), K.record_types)) > 0
    \/ IsNullish(Get(hit, K.manifest))
    \/ LET units == Get(Get(Get(hit, K.metadata), K.physical_location),
                        K.referenceUnits)
       IN units.t = "arr" /\ Len(units.e) > 0 /\ IsNullish(units.e[1])

\* An id line that takes the ranking metadata's id first.
NaraIdLinesRankingFirst(metadata, pinecone_metadata) ==
    LET naId == IF Truthy(Get(pinecone_metadata, K.nara_naId))
                THEN Get(pinecone_metadata, K.nara_naId)
                ELSE Get(metadata, K.nara_naId)
    IN IF Truthy(naId) THEN <<Line("nara_id", naId)>> ELSE <<>>

\* "- **NARA ID**": result.metadata?.nara_naId || result.pinecone_metadata.nara_naId
NaraIdLines(metadata, pinecone_metadata) ==
    LET naId == IF Truthy(Get(metadata, K.nara_naId)) THEN Get(metadata, K.nara_naId)
                ELSE Get(pinecone_metadata, K.nara_naId)
    IN IF Truthy(naId) THEN <<Line("nara_id", naId)>> ELSE <<>>

\* A date line that needs both dates.
DateRangeLinesBothNeeded(pinecone_metadata) ==
    LET date_start == Get(pinecone_metadata, K.date_start)
        date_end == Get(pinecone_metadata, K.date_end)
    IN IF Truthy(date_start) /\ Truthy(date_end)
       THEN <<Line("date_range",
                   [startYear |-> substring(JsString(date_start), 4),
                    endYear |-> substring(JsString(date_end), 4)])>>
       ELSE <<>>

\* "- **Date Range**": the first four characters of String(date), "?" for a
\* date that is not there.
DateRangeLines(pinecone_metadata) ==
    LET date_start == Get(pinecone_metadata, K.date_start)
        date_end == Get(pinecone_metadata, K.date_end)
    IN IF Truthy(date_start) \/ Truthy(date_end)
       THEN <<Line("date_range",
                   [startYear |-> IF Truthy(date_start)
                                  THEN substring(JsString(date_start), 4) ELSE <<"?">>,
                    endYear |-> IF Truthy(date_end)
                                THEN substring(JsString(date_end), 4) ELSE <<"?">>])>>
       ELSE <<>>

\* The lines of formatSearchResultConcise, for a result it can read.
ConciseLines(hit, index) ==
    LET metadata == Get(hit, K.metadata)
        pinecone_metadata == Get(hit, K.pinecone_metadata)
        manifest == Get(hit, K.manifest)
        namespace == Get(hit, K.namespace)
        restriction == Get(metadata, K.access_restriction)
        units == Get(Get(metadata, K.physical_location), K.referenceUnits)
        location == IF units.t = "arr" /\ Len(units.e) > 0 THEN units.e[1]
                    ELSE IF units.t = "str" /\ Len(units.s) > 0 THEN VStr(<<units.s[1]>>)
                    ELSE VUndefined
        extractedTexts == findExtractedText(hit)
        When(cond, tag, val) == IF cond THEN <<Line(tag, val)>> ELSE <<>>
    IN <<ResultHeader(hit, index),
         Line("type", namespace),
         Line("pi", Get(hit, K.pi)),
         Line("view", Get(hit, K.pi))>>
       \o When(Truthy(Get(metadata, K.title)), "title", Get(metadata, K.title))
       \o When(Truthy(Get(metadata, K.level)), "level", Get(metadata, K.level))
       \o NaraIdLines(metadata, pinecone_metadata)
       \o DateRangeLines(pinecone_metadata)
       \o When(Truthy(Get(metadata, K.record_types))
                 /\ Length(Get(metadata, K.record_types)) > 0,
               "record_types", Get(metadata, K.record_types))
       \o (IF namespace.t = "str" /\ namespace.s = StrDigitalObject
           THEN When(Truthy(Get(metadata, K.filename)), "filename",
                     Get(metadata, K.filename))
                \o When(Truthy(Get(metadata, K.file_size)), "file_size",
                        IF Get(metadata, K.file_size).t = "num"
                        THEN sizeMB(Get(metadata, K.file_size).int)
                        ELSE [int |-> 0, frac |-> 0])
           ELSE <<>>)
       \o When(Truthy(Get(metadata, K.digital_object_count)), "digital_objects",
               Get(metadata, K.digital_object_count))
       \o When(Truthy(Get(manifest, K.parent_pi)), "parent_pi", Get(manifest, K.parent_pi))
       \o When(Truthy(Get(manifest, K.children_pi))
                 /\ Length(Get(manifest, K.children_pi)) > 0,
               "children", Length(Get(manifest, K.children_pi)))
       \o When(Truthy(restriction) /\ Truthy(Get(restriction, K.status)),
               "access", Get(restriction, K.status))
       \o (IF Truthy(units) /\ Length(units) > 0 /\ Truthy(Get(location, K.name))
           THEN <<Line("location", Get(location, K.name))>>
                \o When(Truthy(Get(location, K.city)) /\ Truthy(Get(location, K.state)),
                        "location_city_state",
                        <<Get(location, K.city), Get(location, K.state)>>)
           ELSE <<>>)
       \o <<Line("manifest_cid", Get(manifest, K.manifest_cid))>>
       \o When(Truthy(Get(hit, K.metadata_cid)), "metadata_cid",
               Get(hit, K.metadata_cid))
       \o When(Len(extractedTexts) > 0, "preview",
               preview(join(extractedTexts, TextSeparator)))

formatSearchResultConcise(hit, index) ==
    IF ConciseThrows(hit)
    THEN [threw |-> TRUE, error |-> TypeError, text |-> <<>>]
    ELSE [threw |-> FALSE, error |-> TypeError, text |-> ConciseLines(hit, index)]

\* formatSearchResultVerbose: header, view link and the JSON dump of the
\* result between two code fences.
formatSearchResultVerbose(hit, index) ==
    IF IsNullish(hit) \/ Get(hit, K.score).t # "num"
    THEN [threw |-> TRUE, error |-> TypeError, text |-> <<>>]
    ELSE [threw |-> FALSE, error |-> TypeError,
          text |-> <<ResultHeader(hit, index), Blank,
                     Line("view", Get(hit, K.pi)), Blank,
                     Line("complete_result_data", ""), Blank,
                     Line("fence_json", ""),
                     Line("json", JSONstringify(hit)),
                     Line("fence", "")>>]

\* Three search results as the gateway returns them: a file unit with every
\* optional field, a digital object with OCR text in a list of pages, and a
\* series without resolved metadata.
HitFileUnit ==
    VObj(<<
        Entry(K.score, VNum(0, <<8, 7, 3, 4>>)),
        Entry(K.pi, VStr(<<"0", "1", "F">>)),
        Entry(K.namespace, VStr(<<"f", "i", "l", "e", "U", "n", "i", "t">>)),
        Entry(K.pinecone_metadata, VObj(<<
            Entry(K.pi, VStr(<<"0", "1", "F">>)),
            Entry(K.schema, VStr(<<"f", "i", "l", "e", "U", "n", "i", "t">>)),
            Entry(K.nara_naId, VNum(722, <<>>)),
            Entry(K.date_start, VNum(19420101, <<>>)),
            Entry(K.date_end, VNum(19451231, <<>>)),
            Entry(K.last_updated, VStr(<<"2", "0", "2", "5">>))>>)),
        Entry(K.manifest, VObj(<<
            Entry(K.pi, VStr(<<"0", "1", "F">>)),
            Entry(K.ver, VNum(1, <<>>)),
            Entry(K.ts, VStr(<<"2", "0", "2", "5">>)),
            Entry(K.manifest_cid, VStr(<<"b", "a", "f", "y", "1">>)),
            Entry(K.components, VObj(<<
                Entry(K.metadata, VStr(<<"b", "a", "f", "y", "m">>))>>)),
            Entry(K.children_pi, VArr(<<VStr(<<"0", "1", "D">>)>>)),
            Entry(K.parent_pi, VStr(<<"0", "1", "S">>))>>)),
        Entry(K.metadata, VObj(<<
            Entry(K.title, VStr(<<"W", "a", "r", " ", "\"", "D", "i", "a", "r", "y", "\"">>)),
            Entry(K.level, VStr(<<"f", "i", "l", "e", "U", "n", "i", "t">>)),
            Entry(K.nara_naId, VNum(723, <<>>)),
            Entry(K.record_types, VArr(<<VStr(<<"M", "a", "p", "s">>),
                   VStr(<<"T", "e", "x", "t">>)>>)),
            Entry(K.digital_object_count, VNum(2, <<>>)),
            Entry(K.access_restriction, VObj(<<
                Entry(K.status, VStr(<<"O", "p", "e", "n">>))>>)),
            Entry(K.physical_location, VObj(<<
                Entry(K.referenceUnits, VArr(<<VObj(<<
                           Entry(K.name, VStr(<<"N", "A", "R", "A">>)),
                           Entry(K.city, VStr(<<"D", "C">>)),
                           Entry(K.state, VStr(<<"M", "D">>))>>)>>))>>)),
            Entry(K.extracted_text, VStr(<<" ", "p", "1", "\n", "\\", "p", "2", " ">>))>>)),
        Entry(K.metadata_cid, VStr(<<"b", "a", "f", "y", "m">>))>>)

HitDigitalObject ==
    VObj(<<
        Entry(K.score, VNum(0, <<5>>)),
        Entry(K.pi, VStr(<<"0", "1", "D">>)),
        Entry(K.namespace, VStr(<<"d", "i", "g", "i", "t", "a", "l", "O", "b", "j", "e", "c", "t">>)),
        Entry(K.pinecone_metadata, VObj(<<
            Entry(K.pi, VStr(<<"0", "1", "D">>)),
            Entry(K.schema, VStr(<<"d", "i", "g", "i", "t", "a", "l", "O", "b", "j", "e", "c", "t">>)),
            Entry(K.last_updated, VStr(<<"2", "0", "2", "5">>))>>)),
        Entry(K.manifest, VObj(<<
            Entry(K.pi, VStr(<<"0", "1", "D">>)),
            Entry(K.ver, VNum(2, <<>>)),
            Entry(K.ts, VStr(<<"2", "0", "2", "5">>)),
            Entry(K.manifest_cid, VStr(<<"b", "a", "f", "y", "2">>)),
            Entry(K.components, VObj(<<>>)),
            Entry(K.parent_pi, VStr(<<"0", "1", "F">>))>>)),
        Entry(K.metadata, VObj(<<
            Entry(K.filename, VStr(<<"a", ".", "p", "n", "g">>)),
            Entry(K.file_size, VNum(2621440, <<>>)),
            Entry(K.pages, VArr(<<VObj(<<
                       Entry(K.extractedText, VStr(<<"o", "c", "r">>))>>)>>))>>))>>)

HitSeries ==
    VObj(<<
        Entry(K.score, VNum(1, <<>>)),
        Entry(K.pi, VStr(<<"0", "1", "S">>)),
        Entry(K.namespace, VStr(<<"s", "e", "r", "i", "e", "s">>)),
        Entry(K.pinecone_metadata, VObj(<<
            Entry(K.pi, VStr(<<"0", "1", "S">>)),
            Entry(K.schema, VStr(<<"s", "e", "r", "i", "e", "s">>)),
            Entry(K.last_updated, VStr(<<"2", "0", "2", "5">>))>>)),
        Entry(K.manifest, VObj(<<
            Entry(K.pi, VStr(<<"0", "1", "S">>)),
            Entry(K.ver, VNum(1, <<>>)),
            Entry(K.ts, VStr(<<"2", "0", "2", "5">>)),
            Entry(K.manifest_cid, VStr(<<"b", "a", "f", "y", "3">>)),
            Entry(K.components, VObj(<<>>))>>)),
        Entry(K.metadata, VNull)>>)

Hits == {HitFileUnit, HitDigitalObject, HitSeries}

\* The header both response formatters start with.
ResponseHeader(response) ==
    <<Line("heading", response.query), Blank,
      Line("total_results", response.total_results),
      Line("namespaces", The(response.namespaces))>>
    \o (IF Truthy(response.took_ms) THEN <<Line("search_time", response.took_ms)>>
        ELSE <<>>)
    \o <<Blank>>

NoResults ==
    Line("no_results",
         "No results found. Try adjusting your query or searching different namespaces.")

Rule == Line("rule", "---")

\* Result blocks emitted last result first.
RECURSIVE ResultBlocksReversed(_, _, _)
ResultBlocksReversed(blocks, i, n) ==
    IF i > n THEN <<>>
    ELSE blocks[n + 1 - i].text
         \o (IF i < n THEN <<Blank, Rule, Blank>> ELSE <<>>)
         \o ResultBlocksReversed(blocks, i + 1, n)

\* The result blocks in response order, "---" between two of them.
RECURSIVE ResultBlocks(_, _, _)
ResultBlocks(blocks, i, n) ==
    IF i > n THEN <<>>
    ELSE blocks[i].text
         \o (IF i < n THEN <<Blank, Rule, Blank>> ELSE <<>>)
         \o ResultBlocks(blocks, i + 1, n)

ResponseThrows(response) ==
    \/ response = JsonNull
    \/ response.namespaces = {}
    \/ response.results = {}

\* A concise formatter that takes a single result for none.
formatSearchResponseConciseFewAsNone(response) ==
    IF ResponseThrows(response) THEN [threw |-> TRUE, error |-> TypeError, text |-> <<>>]
    ELSE LET results == The(response.results)
             blocks == [i \in DOMAIN results |-> formatSearchResultConcise(results[i], i - 1)]
         IN IF \E i \in DOMAIN blocks : blocks[i].threw
            THEN [threw |-> TRUE, error |-> TypeError, text |-> <<>>]
            ELSE [threw |-> FALSE, error |-> TypeError,
                  text |-> ResponseHeader(response)
                           \o (IF Len(results) <= 1 THEN <<NoResults>>
                               ELSE <<Rule, Blank>> \o ResultBlocks(blocks, 1, Len(blocks)))
                           \o <<Blank, Rule, Blank, Line("notes", "**Notes:**"),
                                Line("note", "PI"), Line("note", "CIDs"),
                                Line("note", "Similarity scores")>>]

formatSearchResponseConcise(response) ==
    IF ResponseThrows(response) THEN [threw |-> TRUE, error |-> TypeError, text |-> <<>>]
    ELSE LET results == The(response.results)
             blocks == [i \in DOMAIN results |-> formatSearchResultConcise(results[i], i - 1)]
         IN IF \E i \in DOMAIN blocks : blocks[i].threw
            THEN [threw |-> TRUE, error |-> TypeError, text |-> <<>>]
            ELSE [threw |-> FALSE, error |-> TypeError,
                  text |-> ResponseHeader(response)
                           \o (IF Len(results) = 0 THEN <<NoResults>>
                               ELSE <<Rule, Blank>> \o ResultBlocks(blocks, 1, Len(blocks)))
                           \o <<Blank, Rule, Blank, Line("notes", "**Notes:**"),
                                Line("note", "PI"), Line("note", "CIDs"),
                                Line("note", "Similarity scores")>>]

formatSearchResponseVerbose(response) ==
    IF ResponseThrows(response) THEN [threw |-> TRUE, error |-> TypeError, text |-> <<>>]
    ELSE LET results == The(response.results)
             blocks == [i \in DOMAIN results |-> formatSearchResultVerbose(results[i], i - 1)]
         IN IF \E i \in DOMAIN blocks : blocks[i].threw
            THEN [threw |-> TRUE, error |-> TypeError, text |-> <<>>]
            ELSE [threw |-> FALSE, error |-> TypeError,
                  text |-> ResponseHeader(response)
                           \o <<Line("verbose_note", "Verbose mode"), Blank>>
                           \o (IF Len(results) = 0 THEN <<NoResults>>
                               ELSE <<Rule, Blank>> \o ResultBlocks(blocks, 1, Len(blocks)))]

\* formatSearchResultsForAI: the header joins response.namespaces and the body
\* reads response.results.length, so a response without them throws.
formatSearchResultsForAI(response, verbose) ==
    IF verbose THEN formatSearchResponseVerbose(response)
    ELSE formatSearchResponseConcise(response)

(***************************************************************************)
(* search_arke: schema, handler, ArkeSearchClient.search and the renderer.  *)
(***************************************************************************)
\* topK: z.number().int().min(1).max(20).optional().default(10)
TopKSchemaMin == 1

TopKSchemaMax == 20

TopKDefault == 10

ConciseMaxTopK == 20

VerboseMaxTopK == 5

Queries == {"", "apollo"}

NamespaceFilters == {<<"digitalObject">>, <<"fileUnit">>}

\* A schema that lets any namespace through.
ZodSearchAnyNamespace(raw) ==
    /\ raw.query # ""
    /\ \A k \in raw.topK : k >= TopKSchemaMin /\ k <= TopKSchemaMax

\* query is z.string().min(1); topK is optional within the schema range;
\* namespaces is an optional z.array(namespaceEnum).
ZodSearch(raw) ==
    /\ raw.query # ""
    /\ \A k \in raw.topK : k >= TopKSchemaMin /\ k <= TopKSchemaMax
    /\ \A ns \in raw.namespaces : \A i \in DOMAIN ns : ns[i] \in namespaceEnum

\* The arguments the handler receives: defaults filled in (given keeps the
\* topK of the request as it was sent, {} when omitted).
SearchArgs(raw) ==
    [query |-> raw.query, given |-> raw.topK,
     topK |-> IF raw.topK = {} THEN TopKDefault ELSE The(raw.topK),
     namespaces |-> raw.namespaces,
     verbose |-> IF raw.verbose = {} THEN FALSE ELSE The(raw.verbose)]

\* A handler that forwards the requested topK as it is.
adjustedTopKUnclamped(topK, verbose) == topK

maxTopK(verbose) == IF verbose THEN VerboseMaxTopK ELSE ConciseMaxTopK

adjustedTopK(topK, verbose) == Min(topK, maxTopK(verbose))

SearchRequest(a) ==
    [method |-> "POST", path |-> <<"search">>, query |-> a.query,
     topK |-> adjustedTopK(a.topK, a.verbose), namespaces |-> a.namespaces]

\* Bodies the search gateway may answer; took_ms is a number or undefined.
SearchBody(ns, results, took) ==
    [kind |-> "object", query |-> <<"w", "a", "r">>,
     total_results |-> IF results = {} THEN 0 ELSE Len(The(results)),
     namespaces |-> ns, results |-> results, took_ms |-> took]

TookMs == VNum(12, <<>>)

SearchBodies ==
    {JsonNull, InvalidJson,
     SearchBody({}, {<<HitSeries>>}, VUndefined),
     SearchBody({<<"digitalObject">>}, {}, TookMs),
     SearchBody({<<"digitalObject">>}, {<<>>}, TookMs),
     SearchBody({<<"digitalObject">>}, {<<HitDigitalObject, HitSeries>>}, VUndefined)}

SearchHttpOutcomes ==
    {NetworkError, HttpResponse(FALSE, JsonNull)}
        \cup {HttpResponse(TRUE, b) : b \in SearchBodies}

\* ArkeSearchClient.search: every failure is rethrown by its catch block.
search(http) ==
    IF http.kind = "network_error"
    THEN [threw |-> TRUE, error |-> JsError(<<"Error performing search", "fetch failed">>),
          value |-> JsonNull]
    ELSE IF ~http.ok
    THEN [threw |-> TRUE, error |-> JsError(<<"Error performing search", "Search request failed">>),
          value |-> JsonNull]
    ELSE IF http.body = InvalidJson
    THEN [threw |-> TRUE, error |-> JsError(<<"Error performing search", "Unexpected token">>),
          value |-> JsonNull]
    ELSE [threw |-> FALSE, error |-> TypeError, value |-> http.body]

\* A catch block that rethrows, as the one of init does.
SearchCatchRethrow(err) == Unhandled(err)

SearchCatch(err) ==
    ErrorPayload("Error performing search", err, "Please try")

\* The handler after `await this.arkeClient.search(...)` settled.  The log
\* line reads response.total_results, which throws for a null response.
SearchHandlerReturn(a, http) ==
    LET r == search(http)
    IN IF r.threw THEN SearchCatch(r.error)
       ELSE IF r.value = JsonNull THEN SearchCatch(TypeError)
       ELSE LET f == formatSearchResultsForAI(r.value, a.verbose)
            IN IF f.threw THEN SearchCatch(f.error) ELSE SuccessPayload(f.text)

\* A search_arke request arrives; valid arguments enter the handler, which
\* clamps topK and sends the search request.
SearchInvoke ==
    /\ pc = "idle"
    /\ Registered("search_arke")
    /\ \E raw \in [query : Queries, topK : Opt(0..MaxTopKArg),
                   namespaces : Opt(NamespaceFilters), verbose : Opt(BOOLEAN)] :
        /\ tool' = "search_arke"
        /\ IF ZodSearch(raw)
           THEN /\ pc' = "await_search"
                /\ args' = SearchArgs(raw)
                /\ calls' = <<SearchRequest(SearchArgs(raw))>>
           ELSE /\ pc' = "rejected"
                /\ args' = raw
                /\ calls' = <<>>
    /\ UNCHANGED <<fetches, completed, all, result, received, nonToolVars>>

\* A handler that sends the search once more after a failure.
SearchResumeRetry ==
    /\ pc = "await_search"
    /\ \E http \in SearchHttpOutcomes :
        IF search(http).threw /\ Len(calls) < 2
        THEN /\ calls' = Append(calls, calls[1])
             /\ UNCHANGED <<pc, result, received>>
        ELSE /\ result' = {SearchHandlerReturn(args, http)}
             /\ received' = {http}
             /\ pc' = "returned"
             /\ UNCHANGED calls
    /\ UNCHANGED <<tool, args, fetches, completed, all, nonToolVars>>

\* The search call settles and the handler returns.
SearchResume ==
    /\ pc = "await_search"
    /\ \E http \in SearchHttpOutcomes :
        /\ received' = {http}
        /\ result' = {SearchHandlerReturn(args, http)}
    /\ pc' = "returned"
    /\ UNCHANGED <<tool, args, calls, fetches, completed, all, nonToolVars>>

(***************************************************************************)
(* extract_text_ocr: schema, handler, OCRClient.processOCR, renderers.      *)
(***************************************************************************)
\* pi: z.string().min(1).optional(); pis: z.array(z.string().min(1)).min(1)
\* .max(10).optional(); force_reprocess: z.boolean().optional().default(false)
ZodOcr(raw) ==
    /\ \A p \in raw.pi : p # ""
    /\ \A ps \in raw.pis :
        /\ Len(ps) >= PisSchemaMin
        /\ Len(ps) <= PisSchemaMax
        /\ \A i \in DOMAIN ps : ps[i] # ""

OcrArgs(raw) ==
    [pi |-> raw.pi, pis |-> raw.pis,
     force_reprocess |-> IF raw.force_reprocess = {} THEN FALSE
                         ELSE The(raw.force_reprocess)]

\* JavaScript truthiness of an optional string and of an optional array.
TruthyString(o) == o # {} /\ o # {""}

TruthyArray(o) == o # {}

\* A handler that only checks that something was supplied.
OcrValidationNeitherOnly(a) ==
    IF ~TruthyString(a.pi) /\ ~TruthyArray(a.pis)
    THEN {[isError |-> TRUE, text |-> <<>>,
           message |-> <<"Error: You must provide either 'pi' or 'pis'">>,
           guidance |-> "but not both"]}
    ELSE {}

\* The two validation returns at the top of the handler: {} when the
\* arguments pass, otherwise the error payload returned at once.
OcrValidation(a) ==
    IF ~TruthyString(a.pi) /\ ~TruthyArray(a.pis)
    THEN {[isError |-> TRUE, text |-> <<>>,
           message |-> <<"Error: You must provide either 'pi' or 'pis'">>,
           guidance |-> "but not both"]}
    ELSE IF TruthyString(a.pi) /\ TruthyArray(a.pis)
    THEN {[isError |-> TRUE, text |-> <<>>,
           message |-> <<"Error: You cannot provide both 'pi' and 'pis'">>,
           guidance |-> "Use 'pi' for single entity or 'pis' for batch processing"]}
    ELSE {}

isBatch(a) == TruthyArray(a.pis)

\* The piOrPis argument of processOCR: a string or an array of strings.
PiString(pi) == [isArray |-> FALSE, pi |-> pi, pis |-> <<>>]

PisArray(pis) == [isArray |-> TRUE, pi |-> "", pis |-> pis]

\* OCRClient.processOCR up to its fetch: Array.isArray(piOrPis) picks the
\* endpoint and the body field; options is {} when the caller passes none,
\* and its force_reprocess is {} when the caller leaves it out.
processOCRRequest(piOrPis, options) ==
    LET force == IF options = {} \/ The(options).force_reprocess = {} THEN FALSE
                 ELSE The(The(options).force_reprocess)
    IN IF piOrPis.isArray
       THEN [method |-> "POST", path |-> <<"/ocr">>, pi |-> {}, pis |-> {piOrPis.pis},
             force_reprocess |-> force, update_metadata |-> TRUE]
       ELSE [method |-> "POST", path |-> <<"/ocr", piOrPis.pi>>, pi |-> {piOrPis.pi},
             pis |-> {}, force_reprocess |-> force, update_metadata |-> TRUE]

\* The handler's call: piOrPis = isBatch ? pis : pi, options = {force_reprocess}.
OcrRequest(a) ==
    processOCRRequest(IF isBatch(a) THEN PisArray(The(a.pis)) ELSE PiString(The(a.pi)),
                      {[force_reprocess |-> {a.force_reprocess}]})

\* An OCRResponse; optional fields are {} when the service leaves them out.
\* cost amounts are in millionths of a dollar.
OCRResponse(status, source, text, pages, extras) ==
    [kind |-> "object", shape |-> "single",
     pi |-> "p1",
     status |-> status,
     source |-> source,
     processing_time_ms |-> 42,
     extracted_text |-> text,
     pages |-> pages,
     error |-> IF extras /\ status = "error" THEN {"OCR_FAILED"} ELSE {},
     message |-> IF extras /\ status = "error" THEN {"model timed out"} ELSE {},
     page_count |-> IF extras /\ pages # {} THEN {Len(The(pages))} ELSE {},
     total_tokens |-> IF extras THEN {12345} ELSE {},
     total_cost_usd |-> IF extras THEN {1500} ELSE {},
     source_filename |-> IF extras THEN {"scan.png"} ELSE {},
     source_type |-> IF extras THEN {"png"} ELSE {},
     cost_usd |-> IF extras THEN {300} ELSE {},
     ocr_metadata |-> IF extras THEN {[model |-> "ocr-1", processed_at |-> "2025-01-01"]}
                      ELSE {},
     metadata_updated |-> IF extras THEN {TRUE} ELSE {}]

OcrSingleBody(status) == OCRResponse(status, "cached", {}, {}, FALSE)

\* An OCRBatchResponse: the results and the totals the service counted over
\* them.
OCRBatchResponse(results) ==
    LET failed == Cardinality({i \in DOMAIN results : results[i].status = "error"})
    IN [kind |-> "object", shape |-> "batch", status |-> "none",
        results |-> results,
        total_pis |-> Len(results),
        successful |-> Len(results) - failed,
        failed |-> failed,
        total_cost_usd |-> 1500 * (Len(results) - failed),
        total_processing_time_ms |-> 42 * Len(results)]

OcrBatchBody == OCRBatchResponse(<<OcrSingleBody("success")>>)

OcrBodies ==
    {JsonNull, InvalidJson, OcrSingleBody("success"), OcrSingleBody("error"), OcrBatchBody}

OcrHttpOutcomes ==
    {NetworkError, HttpResponse(FALSE, JsonNull)}
        \cup {HttpResponse(TRUE, b) : b \in OcrBodies}

\* A client that hands back whatever body the service answered.
processOCRIgnoringStatus(http) ==
    IF http.kind = "network_error"
    THEN [threw |-> TRUE, error |-> JsError(<<"fetch failed">>), value |-> JsonNull]
    ELSE IF http.body = InvalidJson
    THEN [threw |-> TRUE, error |-> JsError(<<"Unexpected token">>), value |-> JsonNull]
    ELSE [threw |-> FALSE, error |-> TypeError, value |-> http.body]

\* processOCR after its fetch: it has no catch block, so a transport error and
\* an unparsable body propagate as they are; a non-OK status throws.
processOCR(http) ==
    IF http.kind = "network_error"
    THEN [threw |-> TRUE, error |-> JsError(<<"fetch failed">>), value |-> JsonNull]
    ELSE IF ~http.ok
    THEN [threw |-> TRUE, error |-> JsError(<<"OCR API error">>), value |-> JsonNull]
    ELSE IF http.body = InvalidJson
    THEN [threw |-> TRUE, error |-> JsError(<<"Unexpected token">>), value |-> JsonNull]
    ELSE [threw |-> FALSE, error |-> TypeError, value |-> http.body]

\* String.prototype.toUpperCase of a status or a source type.
toUpperCase(str) ==
    CASE str = "success" -> "SUCCESS"
      [] str = "error" -> "ERROR"
      [] str = "png" -> "PNG"
      [] OTHER -> str

\* `${response.pi}` title and view link.
OCRTitleLines(response) ==
    <<Line("title", response.pi), Blank, Line("view", response.pi), Blank>>

\* The block pushed when response.status === "error".
OCRErrorLines(response) ==
    <<Line("status_error", "ERROR"), Blank,
      Line("error_code", IF response.error = {} \/ The(response.error) = ""
                         THEN "UNKNOWN" ELSE The(response.error)),
      Line("message", IF response.message = {} \/ The(response.message) = ""
                      THEN "No error message provided" ELSE The(response.message)),
      Line("processing_time", response.processing_time_ms)>>

\* "## Processing Info" and its bullet list.
OCRProcessingInfoLines(response) ==
    <<Line("processing_info", ""), Blank,
      Line("status", toUpperCase(response.status)),
      Line("source", IF response.source = "cached"
                     THEN "Cached (previously processed)" ELSE "Newly processed"),
      Line("processing_time", response.processing_time_ms)>>
    \o (IF response.page_count # {} /\ The(response.page_count) # 0
        THEN <<Line("page_count", The(response.page_count))>> ELSE <<>>)
    \o (IF response.total_tokens # {} /\ The(response.total_tokens) # 0
        THEN <<Line("total_tokens", toLocaleString(The(response.total_tokens)))>>
        ELSE <<>>)
    \o (IF response.total_cost_usd # {}
        THEN <<Line("total_cost", toFixed6(The(response.total_cost_usd)))>> ELSE <<>>)
    \o (IF response.source = "ocr_processed" /\ response.pages = {}
        THEN (IF response.source_filename # {} /\ The(response.source_filename) # ""
              THEN <<Line("source_file", The(response.source_filename))>> ELSE <<>>)
             \o (IF response.source_type # {} /\ The(response.source_type) # ""
                 THEN <<Line("source_type", toUpperCase(The(response.source_type)))>>
                 ELSE <<>>)
             \o (IF response.cost_usd # {} /\ The(response.cost_usd) # 0
                 THEN <<Line("cost", toFixed6(The(response.cost_usd)))>> ELSE <<>>)
        ELSE <<>>)
    \o (IF response.ocr_metadata # {}
        THEN <<Line("ocr_model", The(response.ocr_metadata).model),
               Line("processed_at", The(response.ocr_metadata).processed_at)>>
        ELSE <<>>)
    \o (IF response.metadata_updated # {} /\ The(response.metadata_updated)
        THEN <<Line("metadata_updated", "Yes (stored to IPFS)")>> ELSE <<>>)

OCRPageLimit == 5

\* A page window that lets one page too many through.
pagesToShowOneMore(pages) == SubSeq(pages, 1, Min(OCRPageLimit + 1, Len(pages)))

\* response.pages.slice(0, 5)
pagesToShow(pages) == SubSeq(pages, 1, Min(OCRPageLimit, Len(pages)))

RECURSIVE OCRPageLines(_)
OCRPageLines(shown) ==
    IF shown = <<>> THEN <<>>
    ELSE <<Line("page", Head(shown).page_number),
           Line("page_file", Head(shown).source_filename),
           Line("page_tokens", toLocaleString(Head(shown).tokens)),
           Line("page_cost", toFixed6(Head(shown).cost_usd)),
           Blank>> \o OCRPageLines(Tail(shown))

\* "## Page Details": the first pages one by one, the rest as a count.
OCRPageDetailLines(response) ==
    IF response.pages # {} /\ Len(The(response.pages)) > 0
    THEN LET shown == pagesToShow(The(response.pages))
             remainingPages == Len(The(response.pages)) - Len(shown)
         IN <<Blank, Line("page_details", ""), Blank>>
            \o OCRPageLines(shown)
            \o (IF remainingPages > 0
                THEN <<Line("more_pages", remainingPages), Blank>> ELSE <<>>)
    ELSE <<>>

\* A text test that counts blanks as text.
hasExtractedTextUntrimmed(response) ==
    /\ response.extracted_text # {}
    /\ Len(The(response.extracted_text)) > 0

\* response.extracted_text && response.extracted_text.trim().length > 0
hasExtractedText(response) ==
    /\ response.extracted_text # {}
    /\ Len(The(response.extracted_text)) > 0
    /\ Len(trim(The(response.extracted_text))) > 0

\* "---", "## Extracted Text" and either the statistics and the text between
\* two code fences or the no-text notice.
OCRExtractedTextLines(response) ==
    <<Line("rule", "---"), Blank, Line("extracted_text", ""), Blank>>
    \o (IF hasExtractedText(response)
        THEN LET text == trim(The(response.extracted_text))
             IN <<Line("stats", [words |-> toLocaleString(wordCount(text)),
                                 characters |-> toLocaleString(Len(text))]),
                  Blank, Line("fence", ""), Line("text", text), Line("fence", "")>>
        ELSE <<Line("no_text", "*No text extracted from document*")>>)

\* A renderer that goes on after the error block.
OCRResultTextNoReturn(response) ==
    OCRTitleLines(response)
    \o (IF response.status = "error" THEN OCRErrorLines(response) ELSE <<>>)
    \o OCRProcessingInfoLines(response)
    \o OCRPageDetailLines(response)
    \o OCRExtractedTextLines(response)

\* output.join("\n") of formatOCRResultForAI, for a response that has a status.
OCRResultText(response) ==
    OCRTitleLines(response)
    \o (IF response.status = "error"
        THEN OCRErrorLines(response)
        ELSE OCRProcessingInfoLines(response)
             \o OCRPageDetailLines(response)
             \o OCRExtractedTextLines(response))

\* formatOCRResultForAI reads response.pi and, unless the status is "error",
\* response.status.toUpperCase(): null or a response without a status throws.
formatOCRResultForAI(response) ==
    IF response = JsonNull \/ response.shape # "single"
    THEN [threw |-> TRUE, error |-> TypeError, text |-> <<>>]
    ELSE [threw |-> FALSE, error |-> TypeError, text |-> OCRResultText(response)]

\* "# Batch OCR Results (n entity|entities)" and the "## Summary" list.
OCRBatchSummaryLines(response) ==
    <<Line("batch_title", [total_pis |-> response.total_pis,
                           noun |-> IF response.total_pis = 1
                                    THEN "entity" ELSE "entities"]),
      Blank, Line("summary", ""), Blank,
      Line("total_entities", response.total_pis),
      Line("successful", response.successful),
      Line("failed", response.failed),
      Line("total_cost", toFixed6(response.total_cost_usd)),
      Line("total_processing_time", response.total_processing_time_ms),
      Blank, Rule, Blank, Line("individual_results", ""), Blank>>

\* The length after which the batch renderer cuts a text preview.
BatchPreviewLimit == 200

\* A preview that always ends in an ellipsis.
batchPreviewAlwaysEllipsis(text) ==
    substring(text, BatchPreviewLimit) \o <<".", ".", ".">>

\* text.length > 200 ? `${text.substring(0, 200)}...` : text
batchPreview(text) ==
    IF Len(text) > BatchPreviewLimit
    THEN substring(text, BatchPreviewLimit) \o <<".", ".", ".">>
    ELSE text

\* "**Text Preview** (n words):" and the preview between two code fences.
OCRBatchPreviewLines(item) ==
    IF hasExtractedText(item)
    THEN LET text == trim(The(item.extracted_text))
         IN <<Blank, Line("text_preview", toLocaleString(wordCount(text))),
              Line("fence", ""), Line("preview", batchPreview(text)), Line("fence", "")>>
    ELSE <<>>

\* The block of response.results[i - 1], the i-th of n results.
OCRBatchResultLines(item, i, n) ==
    <<Line("entity", [number |-> i, pi |-> item.pi]), Blank,
      Line("view", item.pi), Blank>>
    \o (IF item.status = "error"
        THEN <<Line("status_error", "ERROR"),
               Line("error_code", IF item.error = {} \/ The(item.error) = ""
                                  THEN "UNKNOWN" ELSE The(item.error)),
               Line("message", IF item.message = {} \/ The(item.message) = ""
                               THEN "No error message" ELSE The(item.message))>>
        ELSE <<Line("status_success", "SUCCESS"),
               Line("source", IF item.source = "cached"
                              THEN "Cached" ELSE "Newly processed")>>
             \o (IF item.page_count # {} /\ The(item.page_count) # 0
                 THEN <<Line("page_count", The(item.page_count))>> ELSE <<>>)
             \o (IF item.total_tokens # {} /\ The(item.total_tokens) # 0
                 THEN <<Line("total_tokens", toLocaleString(The(item.total_tokens)))>>
                 ELSE <<>>)
             \o (IF item.total_cost_usd # {}
                 THEN <<Line("cost", toFixed6(The(item.total_cost_usd)))>> ELSE <<>>)
             \o OCRBatchPreviewLines(item))
    \o <<Line("processing_time", item.processing_time_ms)>>
    \o (IF i < n THEN <<Blank, Rule, Blank>> ELSE <<>>)

\* for (let i = 0; i < response.results.length; i++): the blocks from the
\* i-th result on.
RECURSIVE OCRBatchLoop(_, _)
OCRBatchLoop(results, i) ==
    IF i > Len(results) THEN <<>>
    ELSE OCRBatchResultLines(results[i], i, Len(results))
         \o OCRBatchLoop(results, i + 1)

\* formatOCRBatchResultForAI reads response.total_cost_usd.toFixed and
\* response.results.length: anything but a batch response throws.
formatOCRBatchResultForAI(response) ==
    IF response = JsonNull \/ response.shape # "batch"
    THEN [threw |-> TRUE, error |-> TypeError, text |-> <<>>]
    ELSE [threw |-> FALSE, error |-> TypeError,
          text |-> OCRBatchSummaryLines(response) \o OCRBatchLoop(response.results, 1)]

OcrCatch(err) ==
    ErrorPayload("Error extracting text", err, "Possible issues")

\* A handler that takes a list of one identifier for a single identifier
\* when it renders.
OcrFormatByCount(a, response) ==
    IF a.pis # {} /\ Len(The(a.pis)) > 1 THEN formatOCRBatchResultForAI(response)
    ELSE formatOCRResultForAI(response)

\* if (isBatch) formatOCRBatchResultForAI(response as OCRBatchResponse)
\* else formatOCRResultForAI(response as OCRResponse)
OcrFormat(a, response) ==
    IF isBatch(a) THEN formatOCRBatchResultForAI(response)
    ELSE formatOCRResultForAI(response)

\* The handler after `await this.ocrClient.processOCR(...)` settled.
OcrHandlerReturn(a, http) ==
    LET r == processOCR(http)
    IN IF r.threw THEN OcrCatch(r.error)
       ELSE LET f == OcrFormat(a, r.value)
            IN IF f.threw THEN OcrCatch(f.error) ELSE SuccessPayload(f.text)

OcrPiArgs == {"", "p1"}

OcrPisArgs == SeqsUpTo({"p1", "p2"}, 2) \cup {<<"">>}

\* An extract_text_ocr request arrives; valid arguments enter the handler,
\* which either returns a validation error or sends the OCR request.
OcrInvoke ==
    /\ pc = "idle"
    /\ Registered("extract_text_ocr")
    /\ \E raw \in [pi : Opt(OcrPiArgs), pis : Opt(OcrPisArgs),
                   force_reprocess : Opt(BOOLEAN)] :
        /\ tool' = "extract_text_ocr"
        /\ IF ~ZodOcr(raw)
           THEN /\ pc' = "rejected"
                /\ args' = raw
                /\ calls' = <<>>
                /\ result' = {}
           ELSE /\ args' = OcrArgs(raw)
                /\ IF OcrValidation(OcrArgs(raw)) # {}
                   THEN /\ pc' = "returned"
                        /\ calls' = <<>>
                        /\ result' = OcrValidation(OcrArgs(raw))
                   ELSE /\ pc' = "await_ocr"
                        /\ calls' = <<OcrRequest(OcrArgs(raw))>>
                        /\ result' = {}
    /\ UNCHANGED <<fetches, completed, all, received, nonToolVars>>

\* A handler that answers with what the OCR request before it produced and
\* keeps its own answer in the client for the next one.
OcrResumeStale ==
    /\ pc = "await_ocr"
    /\ \E http \in OcrHttpOutcomes :
        LET own == OcrHandlerReturn(args, http)
        IN /\ received' = {http}
           /\ result' = IF "last" \in DOMAIN clients.ocrClient
                        THEN {clients.ocrClient.last} ELSE {own}
           /\ clients' = [clients EXCEPT
                             !.ocrClient = [baseUrl |-> clients.ocrClient.baseUrl,
                                            last |-> own]]
    /\ pc' = "returned"
    /\ UNCHANGED <<tool, args, calls, fetches, completed, all>>
    /\ UNCHANGED <<agent, namespaceInfo, registered, initError, nsResp>>
    /\ UNCHANGED <<wkVars, hsVars, exVars, ocVars, orVars, srVars>>

\* The OCR call settles and the handler returns.
OcrResume ==
    /\ pc = "await_ocr"
    /\ \E http \in OcrHttpOutcomes :
        /\ received' = {http}
        /\ result' = {OcrHandlerReturn(args, http)}
    /\ pc' = "returned"
    /\ UNCHANGED <<tool, args, calls, fetches, completed, all, nonToolVars>>

(***************************************************************************)
(* The text extractor applied to values built node by node.                *)
(***************************************************************************)
TextHello == <<"h", "e", "l", "l", "o", " ">>

TextWorld == <<"w", "o", "r", "l", "d">>

Leaves == {VNull, VStr(TextHello), VStr(TextWorld), VStr(<<" ">>)}

Keys == {<<"a">>, <<"b">>, KeyExtractedUnderscoreText,
         <<"E", "x", "t", "r", "a", "c", "t", "e", "d", "T", "e", "x", "t">>}

RECURSIVE Nodes(_)
RECURSIVE NodesOf(_, _)
NodesOf(children, i) ==
    IF i > Len(children) THEN 0
    ELSE Nodes(children[i]) + NodesOf(children, i + 1)

Nodes(value) ==
    IF value.t = "obj" THEN 1 + NodesOf([i \in DOMAIN value.e |-> value.e[i].v], 1)
    ELSE IF value.t = "arr" THEN 1 + NodesOf(value.e, 1)
    ELSE 1

StashNodes == IF exStash = {} THEN 0 ELSE Nodes(The(exStash))

\* A value every container of which holds a single child.
RECURSIVE IsChain(_)
IsChain(value) ==
    IF value.t = "obj" THEN Len(value.e) = 1 /\ IsChain(value.e[1].v)
    ELSE IF value.t = "arr" THEN Len(value.e) = 1 /\ IsChain(value.e[1])
    ELSE TRUE

\* Put the value under a key of a new object.
ExWrapObject ==
    /\ exOut = {}
    /\ Nodes(exTree) + StashNodes < MaxNodes
    /\ \E k \in Keys : exTree' = VObj(<<Entry(k, exTree)>>)
    /\ UNCHANGED <<nonExVars, exStash, exOut>>

\* Put the value into a new array.
ExWrapArray ==
    /\ exOut = {}
    /\ Nodes(exTree) + StashNodes < MaxNodes
    /\ exTree' = VArr(<<exTree>>)
    /\ UNCHANGED <<nonExVars, exStash, exOut>>

\* Set the container built so far aside and start a sibling with a new leaf.
ExStash ==
    /\ exOut = {}
    /\ exStash = {}
    /\ exTree.t \in {"obj", "arr"}
    /\ IsChain(exTree)
    /\ Nodes(exTree) < MaxNodes
    /\ exStash' = {exTree}
    /\ exTree' \in Leaves
    /\ UNCHANGED <<nonExVars, exOut>>

\* Append the value to the container set aside, as a further entry or element.
ExAttach ==
    /\ exOut = {}
    /\ exStash # {}
    /\ LET c == The(exStash)
       IN IF c.t = "obj"
          THEN \E k \in Keys :
                /\ \A i \in DOMAIN c.e : c.e[i].k # k
                /\ exTree' = VObj(Append(c.e, Entry(k, exTree)))
          ELSE exTree' = VArr(Append(c.e, exTree))
    /\ exStash' = {}
    /\ UNCHANGED <<nonExVars, exOut>>

\* A renderer calls findExtractedText on the value.
ExRun ==
    /\ exOut = {}
    /\ exStash = {}
    /\ exOut' = {findExtractedText(exTree)}
    /\ UNCHANGED <<nonExVars, exTree, exStash>>

ExIdle ==
    /\ exTree = VNull
    /\ exStash = {}
    /\ exOut = {}

(***************************************************************************)
(* formatOCRResultForAI called on OCR responses of every variant.          *)
(***************************************************************************)
MaxPages == 7

OrIdle ==
    /\ orIn = {}
    /\ orOut = {}

OCRPageInfo(n) ==
    [page_number |-> n,
     source_filename |-> IndexKey(n) \o <<".", "p", "n", "g">>,
     tokens |-> 1200 + n,
     cost_usd |-> 150 * n]

\* Page lists of every length, in ascending and in descending page order.
OcrPageLists ==
    {[i \in 1..k |-> OCRPageInfo(i)] : k \in 0..MaxPages}
        \cup {[i \in 1..k |-> OCRPageInfo(k + 1 - i)] : k \in 0..MaxPages}

OcrExtractedTexts ==
    {<<>>, <<" ", "\n">>, <<"h", "i">>, <<" ", "h", "i", " ", " ", "y", "o", "\n">>}

OCRResponses ==
    {OCRResponse(status, source, text, pages, extras) :
        status \in {"success", "error"}, source \in {"cached", "ocr_processed"},
        text \in Opt(OcrExtractedTexts), pages \in Opt(OcrPageLists),
        extras \in BOOLEAN}

\* The OCR service answered with some OCRResponse.
OrReceive ==
    /\ orIn = {}
    /\ \E response \in OCRResponses : orIn' = {response}
    /\ orOut' = {}
    /\ UNCHANGED nonOrVars

\* formatOCRResultForAI(response)
OrRender ==
    /\ orIn # {}
    /\ orOut = {}
    /\ orOut' = {formatOCRResultForAI(The(orIn))}
    /\ UNCHANGED <<nonOrVars, orIn>>

\* The rendered text has been handed over.
OrDone ==
    /\ orOut # {}
    /\ orIn' = {}
    /\ orOut' = {}
    /\ UNCHANGED nonOrVars

(***************************************************************************)
(* OCRClient.processOCR called on its own.                                 *)
(***************************************************************************)
OcIdle ==
    /\ ocPc = "idle"
    /\ ocIn = <<>>
    /\ ocCalls = <<>>
    /\ ocResp = {}
    /\ ocOut = {}

OcrErrorBody == [kind |-> "object", shape |-> "error", status |-> "none"]

\* Answers of the OCR API: any status with any body.
OcrClientHttpOutcomes ==
    OcrHttpOutcomes \cup {HttpResponse(FALSE, b) : b \in {InvalidJson, OcrErrorBody}}

OcrClientInputs ==
    {PiString(p) : p \in Ids} \cup {PisArray(ps) : ps \in SeqsUpTo(Ids, MaxPis)}

OcrClientOptions ==
    Opt({[force_reprocess |-> f] : f \in Opt(BOOLEAN)})

\* processOCR is called and runs up to `await fetch(endpoint, ...)`.
OcCall ==
    /\ ocPc = "idle"
    /\ \E piOrPis \in OcrClientInputs, options \in OcrClientOptions :
        /\ ocIn' = [piOrPis |-> piOrPis, options |-> options]
        /\ ocCalls' = <<processOCRRequest(piOrPis, options)>>
    /\ ocPc' = "sent"
    /\ UNCHANGED <<nonOcVars, ocResp, ocOut>>

\* The request settles and processOCR returns or throws.
OcSettle ==
    /\ ocPc = "sent"
    /\ \E http \in OcrClientHttpOutcomes :
        /\ ocResp' = {http}
        /\ ocOut' = {processOCR(http)}
    /\ ocPc' = "done"
    /\ UNCHANGED <<nonOcVars, ocIn, ocCalls>>

\* The caller is done with the outcome.
OcReturn ==
    /\ ocPc = "done"
    /\ ocPc' = "idle"
    /\ ocIn' = <<>>
    /\ ocCalls' = <<>>
    /\ ocResp' = {}
    /\ ocOut' = {}
    /\ UNCHANGED nonOcVars

(***************************************************************************)
(* formatSearchResultsForAI called on search responses: result lists built *)
(* from the three hits, and a single hit with optional fields taken out.   *)
(***************************************************************************)
MaxResults == 2

MaxDropped == 2

SrIdle ==
    /\ srResp = {}
    /\ srDropped = {}
    /\ srOut = {}

\* took_ms of a response: absent, null, zero or a positive time.
TookValues == {VUndefined, VNull, VNum(0, <<>>), TookMs}

\* The optional fields of a SearchResult, as paths of property names.
OptionalPaths ==
    {<<K.metadata>>, <<K.metadata_cid>>,
     <<K.metadata, K.title>>, <<K.metadata, K.level>>, <<K.metadata, K.nara_naId>>,
     <<K.metadata, K.record_types>>, <<K.metadata, K.digital_object_count>>,
     <<K.metadata, K.extracted_text>>, <<K.metadata, K.filename>>,
     <<K.metadata, K.file_size>>, <<K.metadata, K.access_restriction>>,
     <<K.metadata, K.access_restriction, K.status>>,
     <<K.metadata, K.physical_location>>,
     <<K.metadata, K.physical_location, K.referenceUnits>>,
     <<K.pinecone_metadata, K.nara_naId>>, <<K.pinecone_metadata, K.date_start>>,
     <<K.pinecone_metadata, K.date_end>>,
     <<K.manifest, K.parent_pi>>, <<K.manifest, K.children_pi>>}

RECURSIVE GetPath(_, _)
GetPath(value, path) ==
    IF path = <<>> THEN value ELSE GetPath(Get(value, Head(path)), Tail(path))

\* The value without the property at the path ("missing") or with null there.
RECURSIVE DropAt(_, _, _)
DropAt(value, path, how) ==
    IF value.t # "obj" THEN value
    ELSE IF Len(path) = 1
    THEN IF how = "missing"
         THEN VObj(SelectSeq(value.e, LAMBDA entry : entry.k # path[1]))
         ELSE VObj([i \in DOMAIN value.e |->
                      IF value.e[i].k = path[1] THEN Entry(path[1], VNull)
                      ELSE value.e[i]])
    ELSE VObj([i \in DOMAIN value.e |->
                 IF value.e[i].k = path[1]
                 THEN Entry(path[1], DropAt(value.e[i].v, Tail(path), how))
                 ELSE value.e[i]])

\* The gateway answered; its results arrive one by one below.
SrReceive ==
    /\ srResp = {}
    /\ \E took \in TookValues : srResp' = {SearchBody({<<"fileUnit">>}, {<<>>}, took)}
    /\ UNCHANGED <<nonSrVars, srDropped, srOut>>

\* One more result at the end of the list.
SrAddResult ==
    /\ srResp # {}
    /\ srOut = {}
    /\ srDropped = {}
    /\ Len(The(The(srResp).results)) < MaxResults
    /\ \E hit \in Hits :
        srResp' = {SearchBody(The(srResp).namespaces,
                              {Append(The(The(srResp).results), hit)},
                              The(srResp).took_ms)}
    /\ UNCHANGED <<nonSrVars, srDropped, srOut>>

\* The only result of the response comes without one of its optional fields.
SrDropField ==
    /\ srResp # {}
    /\ srOut = {}
    /\ Len(The(The(srResp).results)) = 1
    /\ Cardinality(srDropped) < MaxDropped
    /\ \E path \in OptionalPaths, how \in {"missing", "null"} :
        LET hit == The(The(srResp).results)[1]
        IN /\ ~IsNullish(GetPath(hit, path))
           /\ srResp' = {SearchBody(The(srResp).namespaces,
                                    {<<DropAt(hit, path, how)>>}, The(srResp).took_ms)}
           /\ srDropped' = srDropped \cup {path}
    /\ UNCHANGED <<nonSrVars, srOut>>

\* formatSearchResultsForAI(response, verbose)
SrRender ==
    /\ srResp # {}
    /\ srOut = {}
    /\ \E verbose \in BOOLEAN :
        srOut' = {[verbose |-> verbose,
                   out |-> formatSearchResultsForAI(The(srResp), verbose)]}
    /\ UNCHANGED <<nonSrVars, srResp, srDropped>>

\* The rendered text has been handed over.
SrDone ==
    /\ srOut # {}
    /\ srResp' = {}
    /\ srDropped' = {}
    /\ srOut' = {}
    /\ UNCHANGED nonSrVars

(***************************************************************************)
(* formatSearchResultConcise called on a result whose extracted texts are  *)
(* about as long as the preview limit.                                     *)
(***************************************************************************)
MaxOver == 2

\* Text lengths: short ones, the ones around the limit, and a long one.
PreviewLengths ==
    (1..MaxOver) \cup ((CHAR_LIMIT - 7 - MaxOver)..(CHAR_LIMIT + MaxOver))
        \cup {CHAR_LIMIT + 500}

\* An extracted text as stored: n times a character, in white space.
StoredText(n, c) == VStr(<<" ">> \o [i \in 1..n |-> c] \o <<"\n">>)

\* A series whose resolved metadata holds the given entries.
PreviewHit(entries) ==
    VObj([i \in DOMAIN HitSeries.e |->
            IF HitSeries.e[i].k = K.metadata THEN Entry(K.metadata, VObj(entries))
            ELSE HitSeries.e[i]])

\* The gateway answered with one result that has no extracted text yet.
PvReceive ==
    /\ srResp = {}
    /\ srResp' = {SearchBody({<<"series">>}, {<<PreviewHit(<<>>)>>}, TookMs)}
    /\ UNCHANGED <<nonSrVars, srDropped, srOut>>

\* The result carries one more extracted text: the first under
\* extracted_text, the second under extractedText.
PvAddText ==
    /\ srResp # {}
    /\ srOut = {}
    /\ LET entries == Get(The(The(srResp).results)[1], K.metadata).e
       IN /\ Len(entries) < 2
          /\ \E n \in PreviewLengths :
                srResp' = {SearchBody(The(srResp).namespaces,
                    {<<PreviewHit(Append(entries,
                          IF entries = <<>>
                          THEN Entry(K.extracted_text, StoredText(n, "a"))
                          ELSE Entry(K.extractedText, StoredText(n, "b"))))>>},
                    The(srResp).took_ms)}
    /\ UNCHANGED <<nonSrVars, srDropped, srOut>>

\* formatSearchResultsForAI(response, false)
PvRender ==
    /\ srResp # {}
    /\ srOut = {}
    /\ srOut' = {[verbose |-> FALSE, out |-> formatSearchResultsForAI(The(srResp), FALSE)]}
    /\ UNCHANGED <<nonSrVars, srResp, srDropped>>

(***************************************************************************)
(* formatOCRBatchResultForAI called on batch responses built result by     *)
(* result.                                                                 *)
(***************************************************************************)
MaxBatch == 2

\* A text of n characters that begins and ends with a letter.
BatchText(n) == [i \in 1..n |-> IF i % 10 = 5 THEN " " ELSE "a"]

\* Texts around the preview limit, bare and with white space around them.
BatchTexts ==
    {<<>>, <<" ", "\n">>, <<"h", "i">>}
        \cup {BatchText(BatchPreviewLimit + d) : d \in (0 - 1)..MaxOver}
        \cup {<<" ">> \o BatchText(BatchPreviewLimit + d) \o <<"\n">> : d \in 0..1}

\* The results a batch can hold: failures with and without their error
\* fields (and with a text the service should not have sent), successes with
\* every text.
BatchResults ==
    {[OCRResponse("error", "cached", text, {}, extras) EXCEPT !.pi = pi] :
        text \in {{}, {BatchText(BatchPreviewLimit + 1)}},
        extras \in BOOLEAN, pi \in Ids}
    \cup {[OCRResponse("success", "ocr_processed", {text}, {<<OCRPageInfo(1)>>}, TRUE)
              EXCEPT !.pi = pi] : text \in BatchTexts, pi \in Ids}
    \cup {[OCRResponse("success", "cached", {}, {}, FALSE) EXCEPT !.pi = pi] : pi \in Ids}

\* The OCR service answered a batch call; the model starts from no results.
ObReceive ==
    /\ orIn = {}
    /\ orIn' = {OCRBatchResponse(<<>>)}
    /\ orOut' = {}
    /\ UNCHANGED nonOrVars

\* One more result at the end of response.results.
ObAddResult ==
    /\ orIn # {}
    /\ orOut = {}
    /\ Len(The(orIn).results) < MaxBatch
    /\ \E r \in BatchResults :
        orIn' = {OCRBatchResponse(Append(The(orIn).results, r))}
    /\ UNCHANGED <<nonOrVars, orOut>>

\* formatOCRBatchResultForAI(response)
ObRender ==
    /\ orIn # {}
    /\ orOut = {}
    /\ orOut' = {formatOCRBatchResultForAI(The(orIn))}
    /\ UNCHANGED <<nonOrVars, orIn>>

\* The rendered text has been handed over.
ObDone ==
    /\ orOut # {}
    /\ orIn' = {}
    /\ orOut' = {}
    /\ UNCHANGED nonOrVars

(***************************************************************************)
(* The tool surface next to an invocation that began earlier: one that     *)
(* ended before the current one began, or one that is still waiting for    *)
(* its remote call while the current one runs.                             *)
(***************************************************************************)
HsIdle == kept = {}

\* The invocations the history keeps: a few argument lists of each tool.
Remembered ==
    \/ /\ tool = "search_arke"
       /\ args.query = "apollo"
       /\ args.given = {}
       /\ args.namespaces = {}
    \/ /\ tool = "extract_text_ocr"
       /\ ~args.force_reprocess
       /\ args.pi \in {{}, {"p1"}}
       /\ args.pis \in {{}, {<<"p1">>}}
    \/ /\ tool = "get_arke_entities"
       /\ args.pis \in {<<"p1">>, <<"p1", "p2">>}

\* The remote responses the current invocation has received so far, and the
\* order in which the manifest fetches completed.
Responses ==
    IF tool = "get_arke_entities"
    THEN [http |-> [i \in DOMAIN fetches |-> fetches[i].resp], order |-> completed]
    ELSE [http |-> received, order |-> <<>>]

\* The request/response cycle of the current invocation is over and the
\* history keeps what it was given and what it returned.
HsKeep ==
    /\ pc = "returned"
    /\ kept = {}
    /\ Remembered
    /\ kept' = {[tool |-> tool, args |-> args, responses |-> Responses,
                 payload |-> result]}
    /\ pc' = "idle"
    /\ tool' = "none"
    /\ args' = <<>>
    /\ calls' = <<>>
    /\ fetches' = <<>>
    /\ completed' = <<>>
    /\ all' = AllPending
    /\ result' = {}
    /\ received' = {}
    /\ UNCHANGED <<agVars, wkVars, exVars, ocVars, orVars, srVars>>

\* While the current invocation waits for its remote call, the server takes
\* the next request: the waiting invocation goes on in the history.
HsOverlap ==
    /\ pc \in {"await_search", "await_ocr"}
    /\ kept = {}
    /\ Remembered
    /\ kept' = {[tool |-> tool, args |-> args,
                 responses |-> [http |-> {}, order |-> <<>>], payload |-> {}]}
    /\ pc' = "idle"
    /\ tool' = "none"
    /\ args' = <<>>
    /\ calls' = <<>>
    /\ result' = {}
    /\ UNCHANGED <<fetches, completed, all, received>>
    /\ UNCHANGED <<agVars, wkVars, exVars, ocVars, orVars, srVars>>

\* The remote call of the overlapping invocation settles and its handler
\* returns.
HsSettle ==
    /\ kept # {}
    /\ The(kept).payload = {}
    /\ \/ /\ The(kept).tool = "search_arke"
          /\ \E http \in SearchHttpOutcomes :
                kept' = {[The(kept) EXCEPT
                            !.responses = [http |-> {http}, order |-> <<>>],
                            !.payload = {SearchHandlerReturn(The(kept).args, http)}]}
       \/ /\ The(kept).tool = "extract_text_ocr"
          /\ \E http \in OcrHttpOutcomes :
                kept' = {[The(kept) EXCEPT
                            !.responses = [http |-> {http}, order |-> <<>>],
                            !.payload = {OcrHandlerReturn(The(kept).args, http)}]}
    /\ UNCHANGED <<toolVars, agVars, wkVars, exVars, ocVars, orVars, srVars>>

(***************************************************************************)
(* The worker's fetch handler.                                             *)
(***************************************************************************)
WkIdle ==
    /\ wkReq = {}
    /\ wkResp = {}

\* What new URL(request.url) and the request carry.
Pathnames ==
    {"/", "/sse", "/sse/message", "/mcp", "/sse/", "/sse/other", "/mcp/message",
     "/SSE", "/health"}

Requests ==
    [pathname : Pathnames, method : {"GET", "POST", "DELETE"},
     search : {"", "?sessionId=1"}, host : {"arke-mcp.example", "localhost:8787"}]

\* ArkeMCP.serveSSE / ArkeMCP.serve (mount, {binding}).fetch(request, env, ctx)
Delegate(transport, mount, request) ==
    [kind |-> "delegate", transport |-> transport, mount |-> mount,
     binding |-> "ARKE_MCP_OBJECT", request |-> request]

\* new Response(body, {status, headers}); the body of the root endpoint is
\* the object handed to JSON.stringify.
Response(status, contentType, body) ==
    [kind |-> "response", status |-> status, contentType |-> contentType, body |-> body]

ServerInfo ==
    [name |-> "Arke Institute MCP Server",
     version |-> "1.0.0",
     description |-> "Semantic search for NARA archives and presidential libraries",
     endpoints |-> [sse |-> "/sse - Server-Sent Events endpoint for MCP protocol",
                    mcp |-> "/mcp - Standard MCP endpoint"],
     tools |-> <<"search_arke", "get_arke_entities", "extract_text_ocr">>,
     repository |-> "https://github.com/arke-institute"]

\* A handler that serves the root endpoint to GET requests only.
fetchRootGetOnly(request) ==
    IF request.pathname = "/sse" \/ request.pathname = "/sse/message"
    THEN Delegate("sse", "/sse", request)
    ELSE IF request.pathname = "/mcp"
    THEN Delegate("mcp", "/mcp", request)
    ELSE IF request.pathname = "/" /\ request.method = "GET"
    THEN Response(200, {"application/json"}, ServerInfo)
    ELSE Response(404, {}, "Not found")

\* export default { fetch(request, env, ctx) }
fetch(request) ==
    IF request.pathname = "/sse" \/ request.pathname = "/sse/message"
    THEN Delegate("sse", "/sse", request)
    ELSE IF request.pathname = "/mcp"
    THEN Delegate("mcp", "/mcp", request)
    ELSE IF request.pathname = "/"
    THEN Response(200, {"application/json"}, ServerInfo)
    ELSE Response(404, {}, "Not found")

\* A request reaches the worker.
WkReceive ==
    /\ wkReq = {}
    /\ \E request \in Requests : wkReq' = {request}
    /\ wkResp' = {}
    /\ UNCHANGED nonWkVars

\* fetch(request, env, ctx) returns.
WkFetch ==
    /\ wkReq # {}
    /\ wkResp = {}
    /\ wkResp' = {fetch(The(wkReq))}
    /\ UNCHANGED <<wkReq, nonWkVars>>

\* The response has been sent.
WkDone ==
    /\ wkResp # {}
    /\ wkReq' = {}
    /\ wkResp' = {}
    /\ UNCHANGED nonWkVars

(***************************************************************************)
(* Specifications.                                                         *)
(***************************************************************************)
\* The tool surface.
Init == Idle /\ ExIdle /\ OcIdle /\ OrIdle /\ SrIdle /\ AgIdle /\ WkIdle /\ HsIdle

Next ==
    \/ AgentInit
    \/ SearchInvoke
    \/ SearchResume
    \/ EntitiesInvoke
    \/ EntityFetchSettle
    \/ EntitiesResume
    \/ OcrInvoke
    \/ OcrResume
    \/ Reset

Spec == Init /\ [][Next]_vars

\* The text extractor.
InitExtract ==
    /\ Idle
    /\ OcIdle
    /\ OrIdle
    /\ SrIdle
    /\ AgIdle
    /\ WkIdle
    /\ HsIdle
    /\ exTree \in Leaves
    /\ exStash = {}
    /\ exOut = {}

NextExtract ==
    \/ ExWrapObject
    \/ ExWrapArray
    \/ ExStash
    \/ ExAttach
    \/ ExRun

SpecExtract == InitExtract /\ [][NextExtract]_vars

InitOcrClient ==
    /\ Idle
    /\ ExIdle
    /\ OcIdle
    /\ OrIdle
    /\ SrIdle
    /\ AgIdle
    /\ WkIdle
    /\ HsIdle

NextOcrClient ==
    \/ OcCall
    \/ OcSettle
    \/ OcReturn

SpecOcrClient == InitOcrClient /\ [][NextOcrClient]_vars

InitOcrRender ==
    /\ Idle
    /\ ExIdle
    /\ OrIdle
    /\ OcIdle
    /\ SrIdle
    /\ AgIdle
    /\ WkIdle
    /\ HsIdle

NextOcrRender ==
    \/ OrReceive
    \/ OrRender
    \/ OrDone

SpecOcrRender == InitOcrRender /\ [][NextOcrRender]_vars

\* The search renderers on result lists and on results with missing fields.
InitRender ==
    /\ Idle
    /\ ExIdle
    /\ OcIdle
    /\ OrIdle
    /\ SrIdle
    /\ AgIdle
    /\ WkIdle
    /\ HsIdle

NextRender ==
    \/ SrReceive
    \/ SrAddResult
    \/ SrDropField
    \/ SrRender
    \/ SrDone

SpecRender == InitRender /\ [][NextRender]_vars

InitOcrBatch == Idle /\ ExIdle /\ OcIdle /\ OrIdle /\ SrIdle /\ AgIdle /\ WkIdle /\ HsIdle

NextOcrBatch ==
    \/ ObReceive
    \/ ObAddResult
    \/ ObRender
    \/ ObDone

\* formatOCRBatchResultForAI on its own.
SpecOcrBatch == InitOcrBatch /\ [][NextOcrBatch]_vars

\* The concise renderer on long extracted texts.
InitPreview ==
    /\ Idle
    /\ ExIdle
    /\ OcIdle
    /\ OrIdle
    /\ SrIdle
    /\ AgIdle
    /\ WkIdle
    /\ HsIdle

NextPreview ==
    \/ PvReceive
    \/ PvAddText
    \/ PvRender
    \/ SrDone

SpecPreview == InitPreview /\ [][NextPreview]_vars


\* The tool surface with its history.
InitHistory == Idle /\ ExIdle /\ OcIdle /\ OrIdle /\ SrIdle /\ AgIdle /\ WkIdle /\ HsIdle

\* Searches come with the default topK and batches with at most two
\* identifiers: neither the topK nor a third identifier adds a way in which
\* an invocation could depend on another one.
NextHistory ==
    \/ AgentInit
    \/ (SearchInvoke /\ (IF pc' = "rejected" THEN args'.topK ELSE args'.given) = {})
    \/ SearchResume
    \/ (EntitiesInvoke /\ Len(args'.pis) <= 2)
    \/ EntityFetchSettle
    \/ EntitiesResume
    \/ OcrInvoke
    \/ OcrResume
    \/ Reset
    \/ HsKeep
    \/ HsOverlap
    \/ HsSettle

SpecHistory == InitHistory /\ [][NextHistory]_vars

\* The worker's fetch handler on its own.
InitWorker == Idle /\ ExIdle /\ OcIdle /\ OrIdle /\ SrIdle /\ AgIdle /\ WkIdle /\ HsIdle

NextWorker ==
    \/ WkReceive
    \/ WkFetch
    \/ WkDone

SpecWorker == InitWorker /\ [][NextWorker]_vars

(***************************************************************************)
(* Properties of entity resolution (getEntity, getEntities).               *)
(***************************************************************************)
ResolvedEntities ==
    {i \in DOMAIN fetches :
        fetches[i].state = "fulfilled" /\ The(fetches[i].value) # JsonNull}

IsErrorMarker(v) == "error" \in DOMAIN v

\* The component fetches the properties below speak of: the name of the
\* canonical metadata component and what the object store would answer for a
\* content id.  No operation of the client reads them.
CanonicalComponent == "catalog_record"

StoreContent(cid) ==
    IF cid = "cid2"
    THEN [ok |-> FALSE, value |-> JsonNull]
    ELSE [ok |-> TRUE, value |-> [kind |-> "object", cid |-> cid]]

\* C1: after an entity is resolved, its component_data has exactly one key
\* per component its manifest declares.
C1_ComponentDataHasEveryComponent ==
    \A i \in ResolvedEntities :
        LET e == The(fetches[i].value)
        IN /\ e.component_data # {}
           /\ DOMAIN The(e.component_data) = DOMAIN e.components

\* C2: resolving an entity fails only when its manifest fetch fails, and a
\* component whose store fetch fails is recorded as an error marker under its
\* name while its siblings are stored with their fetched values.
C2_ComponentFailureIsRecordedInline ==
    /\ \A i \in DOMAIN fetches :
        fetches[i].state = "rejected" =>
            LET http == The(fetches[i].resp)
            IN http.kind = "network_error" \/ ~http.ok \/ http.body = InvalidJson
    /\ \A i \in ResolvedEntities :
        LET e == The(fetches[i].value)
        IN \A n \in DOMAIN e.components :
            /\ e.component_data # {}
            /\ n \in DOMAIN The(e.component_data)
            /\ IF StoreContent(e.components[n]).ok
               THEN The(e.component_data)[n] = StoreContent(e.components[n]).value
               ELSE IsErrorMarker(The(e.component_data)[n])

\* C3: when the manifest response carries no metadata and the catalog_record
\* component can be fetched, the resolved entity's metadata is that component's
\* value and metadata_cid its content id; metadata that was already set stays.
C3_CanonicalMetadataFirstWriterWins ==
    \A i \in ResolvedEntities :
        LET b == The(fetches[i].resp).body
            e == The(fetches[i].value)
        IN /\ ( /\ b.metadata = {}
                /\ CanonicalComponent \in DOMAIN b.components
                /\ StoreContent(b.components[CanonicalComponent]).ok )
              => /\ e.metadata = {StoreContent(b.components[CanonicalComponent]).value}
                 /\ e.metadata_cid = {b.components[CanonicalComponent]}
           /\ b.metadata # {}
              => /\ e.metadata = b.metadata
                 /\ e.metadata_cid = b.metadata_cid

\* C4: a batch in which some manifest fetch failed returns an error payload
\* and no entity list; a success payload lists every identifier of the batch.
C4_BatchFailsAsAWhole ==
    (tool = "get_arke_entities" /\ pc = "returned") =>
        LET r == The(result)
        IN /\ (\E i \in DOMAIN fetches : fetches[i].state = "rejected")
                => (r.isError /\ r.text = <<>>)
           /\ ~r.isError
                => /\ Len(r.text) = Len(args.pis)
                   /\ \A i \in DOMAIN fetches : fetches[i].state = "fulfilled"

C4_Witness ==
    /\ tool = "get_arke_entities"
    /\ pc = "returned"
    /\ Len(args.pis) = 3
    /\ completed = <<1, 3, 2>>
    /\ fetches[1].state = "fulfilled"
    /\ fetches[2].state = "rejected"
    /\ fetches[3].state = "fulfilled"
    /\ The(result).isError

\* C5: when every manifest fetch succeeded, getEntities yields the i-th
\* fetch's entity at position i, whatever the completion order, and the
\* rendered blocks keep that order.
C5_BatchKeepsInputOrder ==
    /\ all.state = "fulfilled"
        => /\ Len(all.value) = Len(args.pis)
           /\ \A i \in DOMAIN all.value :
                /\ all.value[i] = The(fetches[i].value)
                /\ all.value[i] # JsonNull => all.value[i].pi = args.pis[i]
    /\ (tool = "get_arke_entities" /\ pc = "returned" /\ ~The(result).isError)
        => \A i \in DOMAIN args.pis :
                /\ The(result).text[i].json = The(fetches[i].value)
                /\ The(result).text[i].heading = <<"Entity", i, args.pis[i]>>

C5_Witness ==
    /\ tool = "get_arke_entities"
    /\ pc = "returned"
    /\ args.pis = <<"p1", "p2", "p1">>
    /\ completed = <<3, 1, 2>>
    /\ all.state = "fulfilled"
    /\ ~The(result).isError
    /\ The(fetches[1].value) # The(fetches[3].value)

(***************************************************************************)
(* Properties of the tool handlers.                                        *)
(***************************************************************************)
\* C6: extract_text_ocr with both pi and pis, or with neither, returns an
\* error payload without calling the OCR service; the service is called only
\* when exactly one of them is supplied, and then once.
C6_OcrNeedsExactlyOneForm ==
    (tool = "extract_text_ocr" /\ pc \in {"await_ocr", "returned"}) =>
        LET both == args.pi # {} /\ args.pis # {}
            neither == args.pi = {} /\ args.pis = {}
        IN /\ (both \/ neither)
                => /\ pc = "returned"
                   /\ The(result).isError
                   /\ calls = <<>>
           /\ calls # <<>>
                => /\ Len(calls) = 1
                   /\ (args.pi = {}) # (args.pis = {})

C6_Witness ==
    /\ tool = "extract_text_ocr"
    /\ pc = "returned"
    /\ args.pi = {"p1"}
    /\ args.pis = {<<"p1", "p2">>}
    /\ The(result).isError
    /\ calls = <<>>

\* C7: a handler that has finished has returned a success payload of rendered
\* text or an error payload with a message and guidance, also when the remote
\* call or the rendering threw.
C7_HandlersReturnAPayload ==
    pc = "returned" =>
        /\ result # {}
        /\ \/ /\ The(result).isError
              /\ The(result).message # <<>>
              /\ The(result).guidance \notin {"", "unhandled"}
              /\ The(result).text = <<>>
           \/ /\ ~The(result).isError
              /\ The(result).message = <<>>
              /\ The(result).guidance = ""

C7_Witness ==
    /\ tool = "search_arke"
    /\ pc = "returned"
    /\ The(result).isError
    /\ The(result).message = <<"Error performing search">> \o TypeError.message

\* C8: the topK of the search request is the smaller of the requested topK
\* and the ceiling of the mode, 20 concise and 5 verbose.
C8_TopKClampedToModeCeiling ==
    (tool = "search_arke" /\ calls # <<>>) =>
        /\ Len(calls) = 1
        /\ calls[1].topK >= 1
        /\ IF args.verbose
           THEN calls[1].topK = Min(args.topK, 5) /\ calls[1].topK <= 5
           ELSE calls[1].topK = Min(args.topK, 20) /\ calls[1].topK <= 20

C8_Witness ==
    /\ tool = "search_arke"
    /\ pc = "await_search"
    /\ args.verbose
    /\ args.topK = 20
    /\ calls[1].topK = 5

\* C9: search_arke accepts every integer topK from 1 to 100 and uses 10 when
\* topK is omitted.
C9_TopKAcceptedUpTo100 ==
    /\ (tool = "search_arke" /\ pc = "rejected" /\ args.query # "")
        => \A k \in args.topK : k < 1 \/ k > 100
    /\ (tool = "search_arke" /\ pc = "await_search" /\ args.given = {})
        => args.topK = 10

(***************************************************************************)
(* Properties of the text extractor.                                       *)
(***************************************************************************)
\* The entries the value has: one per key that matches an extracted-text
\* alias and holds a string with non-whitespace content, in depth-first
\* pre-order, each occurrence counted once.
RECURSIVE Occurrences(_)
RECURSIVE OccurrencesIn(_, _, _)
OccurrencesIn(children, isObject, i) ==
    IF i > Len(children) THEN <<>>
    ELSE (IF isObject THEN MatchEntry(children[i]) \o Occurrences(children[i].v)
          ELSE Occurrences(children[i]))
         \o OccurrencesIn(children, isObject, i + 1)

Occurrences(value) ==
    IF value.t = "obj" THEN OccurrencesIn(value.e, TRUE, 1)
    ELSE IF value.t = "arr" THEN OccurrencesIn(value.e, FALSE, 1)
    ELSE <<>>

ExampleValue ==
    VObj(<<Entry(<<"a">>, VObj(<<Entry(KeyExtractedUnderscoreText, VStr(TextHello))>>)),
           Entry(<<"b">>, VArr(<<VObj(<<Entry(
               <<"E", "x", "t", "r", "a", "c", "t", "e", "d", "T", "e", "x", "t">>,
               VStr(TextWorld))>>)>>))>>)

\* C10: findExtractedText returns exactly one trimmed entry per matching
\* occurrence, in depth-first pre-order, and <<"hello", "world">> for the
\* example value.
C10_OneEntryPerOccurrence ==
    exOut # {} =>
        /\ The(exOut) = Occurrences(exTree)
        /\ exTree = ExampleValue
            => The(exOut) = <<<<"h", "e", "l", "l", "o">>, TextWorld>>

KeyExtractedTextCamel ==
    <<"E", "x", "t", "r", "a", "c", "t", "e", "d", "T", "e", "x", "t">>

AliasKeys == {KeyExtractedUnderscoreText, KeyExtractedTextCamel}

\* Some key of the value is an extracted-text alias holding a string with a
\* character that is not whitespace.
RECURSIVE HasText(_)
HasText(value) ==
    IF value.t = "obj"
    THEN \E i \in DOMAIN value.e :
            \/ /\ value.e[i].k \in AliasKeys
               /\ value.e[i].v.t = "str"
               /\ \E j \in DOMAIN value.e[i].v.s : value.e[i].v.s[j] \notin Whitespace
            \/ HasText(value.e[i].v)
    ELSE IF value.t = "arr"
    THEN \E i \in DOMAIN value.e : HasText(value.e[i])
    ELSE FALSE

\* C11: findExtractedText returns the empty sequence for null, for a bare
\* string and for every value without a string of non-whitespace content under
\* a matching key; no entry of its result is empty.
C11_NothingToExtract ==
    exOut # {} =>
        /\ exTree.t \in {"null", "str"} => The(exOut) = <<>>
        /\ ~HasText(exTree) => The(exOut) = <<>>
        /\ \A i \in DOMAIN The(exOut) : The(exOut)[i] # <<>>

C11_Witness ==
    /\ exOut = {<<>>}
    /\ exTree = VObj(<<Entry(KeyExtractedUnderscoreText, VStr(<<" ">>)),
                       Entry(KeyExtractedTextCamel, VNull)>>)

(***************************************************************************)
(* Properties of the OCR client and the OCR renderers.                     *)
(***************************************************************************)
\* C20: processOCR sends one POST per call, to /ocr with pis and no pi for an
\* array and to /ocr/{pi} with pi and no pis for a string; force_reprocess is
\* the caller's value, false when omitted; a non-OK response makes it throw.
C20_OcrClientRequest ==
    ocPc \in {"sent", "done"} =>
        /\ Len(ocCalls) = 1
        /\ ocCalls[1].method = "POST"
        /\ IF ocIn.piOrPis.isArray
           THEN /\ ocCalls[1].path = <<"/ocr">>
                /\ ocCalls[1].pis = {ocIn.piOrPis.pis}
                /\ ocCalls[1].pi = {}
           ELSE /\ ocCalls[1].path = <<"/ocr", ocIn.piOrPis.pi>>
                /\ ocCalls[1].pi = {ocIn.piOrPis.pi}
                /\ ocCalls[1].pis = {}
        /\ \A o \in ocIn.options :
            /\ o.force_reprocess # {} => ocCalls[1].force_reprocess = The(o.force_reprocess)
            /\ o.force_reprocess = {} => ocCalls[1].force_reprocess = FALSE
        /\ ocIn.options = {} => ocCalls[1].force_reprocess = FALSE
        /\ (ocPc = "done" /\ ~The(ocResp).ok) => The(ocOut).threw

C20_Witness ==
    /\ ocPc = "done"
    /\ ~ocIn.piOrPis.isArray
    /\ ocIn.options = {}
    /\ The(ocResp) = HttpResponse(FALSE, OcrErrorBody)
    /\ The(ocOut).threw
    /\ ocCalls[1].path = <<"/ocr", "p1">>

\* C17: for a failure result the single renderer emits the title, the view
\* link, the error heading, the error code, the message and the elapsed time,
\* and nothing else: no processing info, page details or extracted text.
C17_FailureRendersErrorOnly ==
    (orOut # {} /\ The(orIn).status = "error") =>
        LET text == The(orOut).text
        IN /\ ~The(orOut).threw
           /\ Tags(text) = <<"title", "blank", "view", "blank", "status_error", "blank",
                             "error_code", "message", "processing_time">>
           /\ text[7].val = (IF The(orIn).error = {} THEN "UNKNOWN"
                             ELSE The(The(orIn).error))
           /\ text[9].val = The(orIn).processing_time_ms

C17_Witness ==
    /\ orOut # {}
    /\ The(orIn).status = "error"
    /\ The(orIn).extracted_text = {<<"h", "i">>}
    /\ The(orIn).pages # {}
    /\ Len(The(The(orIn).pages)) = 6
    /\ The(orIn).error = {"OCR_FAILED"}
    /\ Len(The(orOut).text) = 9

IsBlankText(text) == \A i \in DOMAIN text : text[i] \in Whitespace

\* C18: a result is rendered as exactly one variant.  A success without text
\* (absent, empty or only whitespace) gets the processing info and the
\* no-text notice and no error heading; a failure gets no extracted-text
\* section.
C18_ExactlyOneVariant ==
    orOut # {} =>
        LET r == The(orIn)
            text == The(orOut).text
        IN /\ HasLine(text, "status_error") # HasLine(text, "processing_info")
           /\ HasLine(text, "status_error") = (r.status = "error")
           /\ (r.status = "success"
                /\ (r.extracted_text = {} \/ IsBlankText(The(r.extracted_text))))
              => /\ HasLine(text, "processing_info")
                 /\ HasLine(text, "extracted_text")
                 /\ HasLine(text, "no_text")
                 /\ ~HasLine(text, "stats")
                 /\ ~HasLine(text, "text")
           /\ r.status = "error"
              => /\ ~HasLine(text, "extracted_text")
                 /\ ~HasLine(text, "no_text")
                 /\ ~HasLine(text, "text")

C18_Witness ==
    /\ orOut # {}
    /\ The(orIn).status = "success"
    /\ The(orIn).extracted_text = {<<" ", "\n">>}
    /\ HasLine(The(orOut).text, "no_text")
    /\ HasLine(The(orOut).text, "processing_info")

\* C19: the single renderer lists the first min(5, P) pages in their given
\* order, and the "more pages" line appears exactly when P > 5 and then shows
\* P - 5.
C19_FirstFivePagesThenCount ==
    (orOut # {} /\ The(orIn).status = "success" /\ The(orIn).pages # {}) =>
        LET pages == The(The(orIn).pages)
            P == Len(pages)
            text == The(orOut).text
            listed == LinesOf(text, "page")
            files == LinesOf(text, "page_file")
            more == LinesOf(text, "more_pages")
        IN /\ Len(listed) = Min(5, P)
           /\ Len(listed) <= 5
           /\ Len(files) = Len(listed)
           /\ \A i \in DOMAIN listed :
                /\ listed[i].val = pages[i].page_number
                /\ files[i].val = pages[i].source_filename
           /\ Len(more) = (IF P > 5 THEN 1 ELSE 0)
           /\ \A i \in DOMAIN more : more[i].val = P - 5

C19_Witness ==
    /\ orOut # {}
    /\ The(orIn).status = "success"
    /\ The(orIn).pages # {}
    /\ Len(The(The(orIn).pages)) = 7
    /\ The(The(orIn).pages)[1].page_number = 7
    /\ Len(LinesOf(The(orOut).text, "page")) = 5
    /\ LinesOf(The(orOut).text, "more_pages") = <<Line("more_pages", 2)>>

(***************************************************************************)
(* Properties of the search renderers.                                     *)
(***************************************************************************)
RenderedResults == The(The(srResp).results)

RenderedText == The(srOut).out.text

\* The extracted texts of the only result, without the white space around
\* them, joined as the concise renderer joins them.
JoinedTexts ==
    LET entries == Get(RenderedResults[1], K.metadata).e
        text(i) == SubSeq(entries[i].v.s, 2, Len(entries[i].v.s) - 1)
    IN IF Len(entries) = 0 THEN <<>>
       ELSE IF Len(entries) = 1 THEN text(1)
       ELSE text(1) \o <<"\n", "\n", "-", "-", "-", "\n", "\n">> \o text(2)

\* C12: a joined extracted text longer than 2000 characters is previewed as
\* its first 2000 characters and a notice with (length - 2000); a joined text
\* of 2000 characters or fewer is previewed whole, without a notice.
C12_PreviewTruncatesAt2000 ==
    srOut # {} =>
        LET previews == LinesOf(RenderedText, "preview")
        IN /\ ~The(srOut).out.threw
           /\ Len(previews) = (IF JoinedTexts = <<>> THEN 0 ELSE 1)
           /\ \A i \in DOMAIN previews :
                IF Len(JoinedTexts) > 2000
                THEN /\ previews[i].val.shown = SubSeq(JoinedTexts, 1, 2000)
                     /\ previews[i].val.notice = {Len(JoinedTexts) - 2000}
                ELSE /\ previews[i].val.shown = JoinedTexts
                     /\ previews[i].val.notice = {}

C12_Witness ==
    /\ srOut # {}
    /\ Len(JoinedTexts) = 2500
    /\ LinesOf(RenderedText, "preview")[1].val.notice = {500}
    /\ Len(LinesOf(RenderedText, "preview")[1].val.shown) = 2000

\* C13: the concise text of a response without results has the no-results
\* sentence and no result header; with results it has one result header per
\* result and no no-results sentence.
C13_NoResultsSentence ==
    (srOut # {} /\ ~The(srOut).verbose) =>
        IF Len(RenderedResults) = 0
        THEN /\ HasLine(RenderedText, "no_results")
             /\ ~HasLine(RenderedText, "result")
        ELSE /\ ~HasLine(RenderedText, "no_results")
             /\ Len(LinesOf(RenderedText, "result")) = Len(RenderedResults)

C13_Witness ==
    /\ srOut # {}
    /\ ~The(srOut).verbose
    /\ RenderedResults = <<>>
    /\ LinesOf(RenderedText, "no_results") = <<NoResults>>

\* Where the lines with a tag stand in a text.
RECURSIVE PositionsFrom(_, _, _)
PositionsFrom(text, tag, i) ==
    IF i > Len(text) THEN <<>>
    ELSE (IF text[i].line = tag THEN <<i>> ELSE <<>>) \o PositionsFrom(text, tag, i + 1)

\* C14: in both modes the i-th result of the response is the i-th block, with
\* rank i, its own score (printed to three decimals) and its own identifier;
\* the blocks follow each other in response order.
C14_ResultsKeepOrderAndScore ==
    srOut # {} =>
        LET headers == PositionsFrom(RenderedText, "result", 1)
            views == PositionsFrom(RenderedText, "view", 1)
        IN /\ Len(headers) = Len(RenderedResults)
           /\ Len(views) = Len(RenderedResults)
           /\ \A i \in DOMAIN RenderedResults :
                /\ RenderedText[headers[i]].val.rank = i
                /\ RenderedText[headers[i]].val.score
                       = toFixed3(Get(RenderedResults[i], K.score))
                /\ RenderedText[views[i]].val = Get(RenderedResults[i], K.pi)
                /\ headers[i] < views[i]
                /\ i < Len(RenderedResults) => views[i] < headers[i + 1]

C14_Witness ==
    /\ srOut # {}
    /\ RenderedResults = <<HitDigitalObject, HitFileUnit>>
    /\ LinesOf(RenderedText, "result")
           = <<Line("result", [rank |-> 1, score |-> [int |-> 0, frac |-> 500]]),
               Line("result", [rank |-> 2, score |-> [int |-> 0, frac |-> 873]])>>

\* C15: in verbose mode the JSON dump of each result parses back to that
\* result, every field and value unchanged.
C15_VerboseDumpRoundTrip ==
    (srOut # {} /\ The(srOut).verbose) =>
        LET dumps == LinesOf(RenderedText, "json")
        IN /\ Len(dumps) = Len(RenderedResults)
           /\ \A i \in DOMAIN dumps :
                /\ JSONparse(dumps[i].val).ok
                /\ JSONparse(dumps[i].val).v = RenderedResults[i]

C15_Witness ==
    /\ srOut # {}
    /\ The(srOut).verbose
    /\ RenderedResults = <<HitFileUnit>>
    /\ JSONparse(LinesOf(RenderedText, "json")[1].val).v = HitFileUnit

\* The lines that go when an optional field goes.
LinesOfField(path) ==
    CASE path = <<K.metadata>> ->
            {"title", "level", "record_types", "digital_objects", "filename",
             "file_size", "access", "location", "location_city_state", "preview"}
      [] path = <<K.metadata_cid>> -> {"metadata_cid"}
      [] path = <<K.metadata, K.title>> -> {"title"}
      [] path = <<K.metadata, K.level>> -> {"level"}
      [] path = <<K.metadata, K.record_types>> -> {"record_types"}
      [] path = <<K.metadata, K.digital_object_count>> -> {"digital_objects"}
      [] path = <<K.metadata, K.extracted_text>> -> {"preview"}
      [] path = <<K.metadata, K.filename>> -> {"filename"}
      [] path = <<K.metadata, K.file_size>> -> {"file_size"}
      [] path \in {<<K.metadata, K.access_restriction>>,
                   <<K.metadata, K.access_restriction, K.status>>} -> {"access"}
      [] path \in {<<K.metadata, K.physical_location>>,
                   <<K.metadata, K.physical_location, K.referenceUnits>>} ->
            {"location", "location_city_state"}
      [] path = <<K.manifest, K.parent_pi>> -> {"parent_pi"}
      [] path = <<K.manifest, K.children_pi>> -> {"children"}
      [] OTHER -> {}

\* The lines that are gone from the concise block of a result: those of the
\* fields taken out, the id line when neither metadata carries an id, the
\* date line when neither date is there, the time line without took_ms.
GoneLines(hit) ==
    UNION {LinesOfField(path) : path \in srDropped}
    \cup (IF IsNullish(GetPath(hit, <<K.metadata, K.nara_naId>>))
             /\ IsNullish(GetPath(hit, <<K.pinecone_metadata, K.nara_naId>>))
          THEN {"nara_id"} ELSE {})
    \cup (IF IsNullish(GetPath(hit, <<K.pinecone_metadata, K.date_start>>))
             /\ IsNullish(GetPath(hit, <<K.pinecone_metadata, K.date_end>>))
          THEN {"date_range"} ELSE {})
    \cup (IF IsNullish(The(srResp).took_ms) THEN {"search_time"} ELSE {})

\* The result as the gateway holds it, before any field was taken out.
WholeHit(hit) == CHOOSE whole \in Hits : Get(whole, K.pi) = Get(hit, K.pi)

\* C16: the renderer throws in neither mode, whatever optional fields are
\* missing or null; the concise text of a result is the text of the whole
\* result less the lines of the fields that are gone, and the verbose text
\* keeps all its lines.
C16_MissingFieldsOmitLines ==
    srOut # {} =>
        /\ ~The(srOut).out.threw
        /\ Len(RenderedResults) = 1 =>
            LET hit == RenderedResults[1]
                whole == formatSearchResultsForAI(
                             SearchBody(The(srResp).namespaces, {<<WholeHit(hit)>>}, TookMs),
                             The(srOut).verbose)
                gone == IF The(srOut).verbose
                        THEN (IF IsNullish(The(srResp).took_ms) THEN {"search_time"}
                              ELSE {})
                        ELSE GoneLines(hit)
            IN /\ \A tag \in gone : ~HasLine(RenderedText, tag)
               /\ The(srResp).took_ms.t # "num" \/ The(srResp).took_ms = TookMs
                    => Tags(RenderedText)
                          = SelectSeq(Tags(whole.text), LAMBDA tag : tag \notin gone)

C16_Witness ==
    /\ srOut # {}
    /\ ~The(srOut).verbose
    /\ srDropped = {<<K.metadata>>, <<K.manifest, K.children_pi>>}
    /\ Get(RenderedResults[1], K.pi) = Get(HitFileUnit, K.pi)
    /\ Get(RenderedResults[1], K.metadata).t = "null"
    /\ ~The(srOut).out.threw
    /\ HasLine(RenderedText, "manifest_cid")
    /\ HasLine(RenderedText, "nara_id")
    /\ ~HasLine(RenderedText, "title")
    /\ ~HasLine(RenderedText, "children")

\* C26: in both modes the header has the search time line exactly when the
\* response carries a took_ms value.
C26_SearchTimeWheneverKnown ==
    srOut # {} =>
        (HasLine(RenderedText, "search_time") <=> The(srResp).took_ms.t = "num")

\* The lines of the i-th result block of a rendered text.
ResultBlock(i) ==
    LET headers == PositionsFrom(RenderedText, "result", 1)
    IN SubSeq(RenderedText, headers[i],
              IF i < Len(headers) THEN headers[i + 1] - 1 ELSE Len(RenderedText))

\* C27: a concise block has the date-range line exactly when the result has a
\* start or an end date; a side that is there shows the first four characters
\* of its decimal form, a side that is not shows "?".
C27_DateRangeLine ==
    (srOut # {} /\ ~The(srOut).verbose) =>
        \A i \in DOMAIN RenderedResults :
            LET start == GetPath(RenderedResults[i], <<K.pinecone_metadata, K.date_start>>)
                end == GetPath(RenderedResults[i], <<K.pinecone_metadata, K.date_end>>)
                lines == LinesOf(ResultBlock(i), "date_range")
                Year(date) == IF date.t = "num"
                              THEN SubSeq(IndexKey(date.int), 1, 4) ELSE <<"?">>
            IN /\ Len(lines) = (IF start.t = "num" \/ end.t = "num" THEN 1 ELSE 0)
               /\ \A k \in DOMAIN lines :
                    /\ lines[k].val.startYear = Year(start)
                    /\ lines[k].val.endYear = Year(end)

C27_Witness ==
    /\ srOut # {}
    /\ ~The(srOut).verbose
    /\ srDropped = {<<K.pinecone_metadata, K.date_start>>}
    /\ LinesOf(RenderedText, "date_range")
           = <<Line("date_range", [startYear |-> <<"?">>,
                                   endYear |-> <<"1", "9", "4", "5">>])>>

\* C28: a concise block shows the resolved metadata's id when there is one,
\* the ranking metadata's id when only that one is there, and no id line when
\* neither is there.
C28_NativeIdPrefersResolvedMetadata ==
    (srOut # {} /\ ~The(srOut).verbose) =>
        \A i \in DOMAIN RenderedResults :
            LET resolved == GetPath(RenderedResults[i], <<K.metadata, K.nara_naId>>)
                ranking == GetPath(RenderedResults[i], <<K.pinecone_metadata, K.nara_naId>>)
                lines == LinesOf(ResultBlock(i), "nara_id")
            IN IF resolved.t = "num" THEN lines = <<Line("nara_id", resolved)>>
               ELSE IF ranking.t = "num" THEN lines = <<Line("nara_id", ranking)>>
               ELSE lines = <<>>

C28_Witness ==
    /\ srOut # {}
    /\ ~The(srOut).verbose
    /\ srDropped = {<<K.metadata, K.nara_naId>>}
    /\ LinesOf(RenderedText, "nara_id") = <<Line("nara_id", VNum(722, <<>>))>>

(***************************************************************************)
(* Properties of the batch OCR renderer.                                   *)
(***************************************************************************)
BatchText_ == The(orOut).text

\* The lines of the i-th result block of a rendered batch.
BatchBlock(i) ==
    LET headers == PositionsFrom(BatchText_, "entity", 1)
    IN SubSeq(BatchText_, headers[i],
              IF i < Len(headers) THEN headers[i + 1] - 1 ELSE Len(BatchText_))

\* C29: the batch renderer emits one block per result, in the order of the
\* results list; a successful result with text has a preview that is its
\* trimmed text when that has at most 200 characters, and its first 200
\* characters followed by "..." when it is longer; a block has the error
\* fields exactly when its result's status is error.
C29_BatchPreviewOrderAndErrors ==
    orOut # {} =>
        LET results == The(orIn).results
        IN /\ Len(PositionsFrom(BatchText_, "entity", 1)) = Len(results)
           /\ \A i \in DOMAIN results :
                LET block == BatchBlock(i)
                    previews == LinesOf(block, "preview")
                    text == trim(The(results[i].extracted_text))
                IN /\ block[1] = Line("entity", [number |-> i, pi |-> results[i].pi])
                   /\ \A k \in DOMAIN previews :
                        /\ results[i].status # "error"
                        /\ Len(previews[k].val) <= BatchPreviewLimit + 3
                        /\ IF Len(text) > BatchPreviewLimit
                           THEN previews[k].val
                                    = SubSeq(text, 1, BatchPreviewLimit) \o <<".", ".", ".">>
                           ELSE previews[k].val = text
                   /\ (results[i].status # "error" /\ results[i].extracted_text # {}
                       /\ Len(text) > 0) => Len(previews) = 1
                   /\ HasLine(block, "error_code") <=> results[i].status = "error"
                   /\ HasLine(block, "message") <=> results[i].status = "error"
                   /\ HasLine(block, "status_error") <=> results[i].status = "error"

C29_Witness ==
    /\ orOut # {}
    /\ Len(The(orIn).results) = 2
    /\ The(orIn).results[1].status = "error"
    /\ The(orIn).results[1].pi = "p2"
    /\ The(orIn).results[2].status = "success"
    /\ The(orIn).results[2].pi = "p1"
    /\ The(orIn).results[2].extracted_text
           = {<<" ">> \o BatchText(BatchPreviewLimit + 1) \o <<"\n">>}
    /\ LinesOf(BatchText_, "preview")
           = <<Line("preview", BatchText(BatchPreviewLimit) \o <<".", ".", ".">>)>>
    /\ Len(LinesOf(BatchText_, "error_code")) = 1

(***************************************************************************)
(* Properties of the extract_text_ocr handler.                             *)
(***************************************************************************)
\* C30: an invocation with a pis list, whatever its length, sends the whole
\* list to the batch endpoint and returns only text of the batch renderer;
\* an invocation with a pi sends it to the single endpoint and returns only
\* text of the single renderer.
C30_CallFormFollowsParameter ==
    (tool = "extract_text_ocr" /\ calls # <<>>) =>
        LET rendered == pc = "returned" /\ ~The(result).isError
            text == The(result).text
        IN /\ Len(calls) = 1
           /\ args.pis # {} =>
                /\ calls[1].path = <<"/ocr">>
                /\ calls[1].pis = args.pis
                /\ calls[1].pi = {}
                /\ rendered => (HasLine(text, "batch_title") /\ ~HasLine(text, "title"))
           /\ args.pis = {} =>
                /\ calls[1].path = <<"/ocr", The(args.pi)>>
                /\ calls[1].pi = args.pi
                /\ calls[1].pis = {}
                /\ rendered => (HasLine(text, "title") /\ ~HasLine(text, "batch_title"))

C30_Witness ==
    /\ tool = "extract_text_ocr"
    /\ pc = "returned"
    /\ args.pis = {<<"p1">>}
    /\ calls # <<>>
    /\ calls[1].path = <<"/ocr">>
    /\ ~The(result).isError
    /\ HasLine(The(result).text, "batch_title")

(***************************************************************************)
(* Properties of the boundary calls of one invocation.                     *)
(***************************************************************************)
\* C21: an invocation sends at most one search request, or at most one OCR
\* request, or one manifest request for each identifier it was given; once
\* its requests are out, no step of the invocation (a failure of a call
\* included) sends another one.
C21_SingleAttempt ==
    /\ [](/\ tool = "search_arke" => Len(calls) <= 1
          /\ tool = "extract_text_ocr" => Len(calls) <= 1
          /\ (tool = "get_arke_entities" /\ pc # "rejected") =>
                calls = [i \in DOMAIN args.pis |-> ManifestRequest(args.pis[i])])
    /\ [][pc # "idle" => (pc' = "idle" \/ calls' = calls)]_vars

\* A search whose only call failed.
C21_Witness ==
    /\ tool = "search_arke"
    /\ pc = "returned"
    /\ The(result).isError
    /\ Len(calls) = 1

\* C23: the manifest fetches of a batch are all started before the handler
\* waits, and the handler has its outcome, success or failure, only when
\* every one of them has completed.
C23_OutcomeAfterEveryResolution ==
    tool = "get_arke_entities" =>
        /\ pc = "await_entities" => Len(calls) = Len(args.pis)
        /\ pc = "returned" => \A i \in DOMAIN fetches : fetches[i].state # "pending"

(***************************************************************************)
(* Properties of the worker's fetch handler.                               *)
(***************************************************************************)
\* C22: whatever the method, the query string and the host of a request, the
\* paths /sse and /sse/message are handed to the SSE endpoint mounted at /sse,
\* the path /mcp to the MCP endpoint mounted at /mcp, the path / is answered
\* with the server information, whose tool list is the three tools init
\* registers, and any other path is answered 404 "Not found".
C22_RoutesByPathOnly ==
    wkResp # {} =>
        LET request == The(wkReq)
            response == The(wkResp)
        IN CASE request.pathname \in {"/sse", "/sse/message"} ->
                    /\ response.kind = "delegate"
                    /\ response.transport = "sse"
                    /\ response.mount = "/sse"
                    /\ response.request = request
             [] request.pathname = "/mcp" ->
                    /\ response.kind = "delegate"
                    /\ response.transport = "mcp"
                    /\ response.mount = "/mcp"
                    /\ response.request = request
             [] request.pathname = "/" ->
                    /\ response.kind = "response"
                    /\ response.status = 200
                    /\ response.contentType = {"application/json"}
                    /\ response.body.name = "Arke Institute MCP Server"
                    /\ response.body.tools
                           = [i \in 1..3 |-> RegisterTools(NamespaceInfo(<<>>))[i].name]
             [] OTHER ->
                    /\ response.kind = "response"
                    /\ response.status = 404
                    /\ response.body = "Not found"

C22_Witness ==
    /\ wkResp # {}
    /\ The(wkReq).pathname = "/"
    /\ The(wkReq).method = "POST"
    /\ The(wkReq).search = "?sessionId=1"
    /\ The(wkResp).kind = "response"
    /\ The(wkResp).status = 200
    /\ The(wkResp).body.tools = <<"search_arke", "get_arke_entities", "extract_text_ocr">>

(***************************************************************************)
(* Properties of ArkeMCP.init.                                             *)
(***************************************************************************)
\* The names of the registered tools, in registration order.
RegisteredNames == [i \in DOMAIN registered |-> registered[i].name]

\* C25: no tool is registered before init has fetched the namespace list; when
\* the fetch fails (no answer, a non-OK status, an unreadable body) init
\* fails with the error of the fetch and registers nothing; when it brings a
\* namespace list, search_arke, get_arke_entities and extract_text_ocr are
\* registered in that order, and search_arke accepts a namespaces filter only
\* if each of its elements is in the fetched list.
C25_ToolsOnlyAfterNamespaces ==
    /\ agent = "constructed" => registered = <<>>
    /\ agent # "constructed" =>
        LET http == The(nsResp)
            fetchFailed == http.kind = "network_error" \/ ~http.ok
                               \/ http.body = InvalidJson
            cause == IF http.kind = "network_error" THEN "fetch failed"
                     ELSE IF ~http.ok THEN "Failed to fetch namespaces"
                     ELSE "Unexpected token"
        IN /\ fetchFailed =>
                /\ agent = "failed"
                /\ initError = {JsError(<<"Error fetching namespaces", cause>>)}
           /\ agent = "failed" => registered = <<>>
           /\ (~fetchFailed /\ http.body # JsonNull) =>
                /\ agent = "ready"
                /\ initError = {}
                /\ namespaceInfo = {http.body}
                /\ RegisteredNames = <<"search_arke", "get_arke_entities", "extract_text_ocr">>
    /\ tool # "none" => (agent = "ready" /\ Registered(tool))
    /\ (tool = "search_arke" /\ args.query # ""
            /\ \A k \in (IF pc = "rejected" THEN args.topK ELSE args.given) :
                    k >= 1 /\ k <= 20) =>
        LET fetched == The(namespaceInfo).namespaces
            inList == \A ns \in args.namespaces : \A i \in DOMAIN ns :
                          \E j \in DOMAIN fetched : fetched[j] = ns[i]
        IN pc = "rejected" <=> ~inList

\* The list fetched at init has no fileUnit; a search filtered by fileUnit is
\* turned down by the schema.
C25_Witness ==
    /\ agent = "ready"
    /\ The(namespaceInfo).namespaces = <<"digitalObject">>
    /\ RegisteredNames = <<"search_arke", "get_arke_entities", "extract_text_ocr">>
    /\ tool = "search_arke"
    /\ pc = "rejected"
    /\ args.query = "apollo"
    /\ args.topK = {}
    /\ args.namespaces = {<<"fileUnit">>}

====
